---- MODULE Spec2Model ----
(***************************************************************************)
(* Verification model of the proxmox-backup storage core: retention        *)
(* pruning (src/backup/prune.rs), the data blob codec                      *)
(* (src/backup/data_blob.rs, src/backup/data_blob_reader.rs) and the       *)
(* interplay of sync writers (src/client/pull.rs) with garbage collection  *)
(* of the chunk store, and the pull/sync replication of groups and         *)
(* snapshots (src/client/pull.rs), and the tape layer: the catalog archive *)
(* writer (src/tape/file_formats/catalog_archive.rs) and the SCSI tape     *)
(* handle (src/tape/drive/lto/sg_tape.rs), the loading and locking of tape *)
(* drives (src/tape/drive/mod.rs), the tape key stores                     *)
(* (src/config/tape_encryption_keys.rs), the chunkers                      *)
(* (src/backup/chunk_stream.rs, src/tools.rs) and the reader session       *)
(* (src/api2/reader.rs).                                                   *)
(***************************************************************************)
EXTENDS Integers, Sequences, FiniteSets, TLC

VARIABLES
    p_list,     \* prune: the snapshot list handed to compute_prune_info
    p_options,  \* prune: the PruneOptions
    p_tz,       \* prune: offset of the server's local time zone, seconds
    p_marks,    \* prune: the mark table after each stage of the call
    p_info,     \* prune: the returned Vec<(BackupInfo, bool)>
    p_pc,       \* prune: "input" before the call, "done" after it
    b_in,       \* blob: arguments of encode / create_signed
    b_enc,      \* blob: Option of the result of encode / create_signed
    b_blob,     \* blob: Option of the stored DataBlob (raw_data, by field)
    b_flipped,  \* blob: TRUE once a stored payload bit has been flipped
    b_dec,      \* blob: Option of a DataBlob::decode call and its result
    b_reader,   \* blob: Option of a DataBlobReader::new call and its result
    b_read,     \* blob: Option of what reading the DataBlobReader gave
    b_fin,      \* blob: Option of the result of DataBlobReader::finish
    g_now,      \* gc: the clock, in days
    g_atime,    \* gc: the chunk store, digest -> atime of the chunk file
    g_indices,  \* gc: the index files of the datastore
    g_locks,    \* gc: the holders of the shared chunk store lock
    g_writer,   \* gc: the sync jobs (pull_store), one record each
    g_gc,       \* gc: the garbage collection pass
    g_removed,  \* gc: the digests the sweep has unlinked
    g_listed,   \* gc: the digests the index files named when the sweep began
    s_remote,   \* sync: the remote datastore, group -> time -> snapshot state
    s_local,    \* sync: the target datastore, group -> owner and snapshots
    s_chunks,   \* sync: the digests present in the target chunk store
    s_delete,   \* sync: the delete (remove vanished) argument of pull_store
    s_run,      \* sync: the pull_store call: position, errors flag, results
    s_group,    \* sync: Option of the locals of the running pull_group
    s_snap,     \* sync: Option of the locals of the running pull_snapshot
    s_log,      \* sync: what the running pull_store has requested and done
    s_faults,   \* sync: number of failures the environment has injected
    t_cat,      \* tape: the running tape_write_catalog call and its writer
    t_sg,       \* tape: the SgTape handle and the key state of the drive
    l_loc,      \* locate: the SgTape handle and the drive during locate_file
    m_req,      \* media: the running request_and_load_media call
    c_fix,      \* chunker: the FixedChunkStream, its input and its output
    c_file,     \* chunker: the running file_chunker call
    k_keys,     \* keys: the two tape key files and the insert_key call
    d_lock,     \* device: the lock file of a drive and the processes using it
    r_sess      \* reader: the reader session and its requests

prune_vars == <<p_list, p_options, p_tz, p_marks, p_info, p_pc>>

blob_vars == <<b_in, b_enc, b_blob, b_flipped, b_dec, b_reader, b_read, b_fin>>

gc_vars ==
    <<g_now, g_atime, g_indices, g_locks, g_writer, g_gc, g_removed, g_listed>>

sync_vars ==
    <<s_remote, s_local, s_chunks, s_delete, s_run, s_group, s_snap, s_log,
      s_faults>>

tape_vars == <<t_cat, t_sg>>

unit_vars == <<l_loc, m_req, c_fix, c_file, k_keys, d_lock, r_sess>>

vars == <<prune_vars, blob_vars, gc_vars, sync_vars, tape_vars, unit_vars>>

\* no pruning: the state of the pruner while other components run
PruneIdle ==
    /\ p_list = <<>>
    /\ p_options = <<>>
    /\ p_tz = 0
    /\ p_marks = <<>>
    /\ p_info = <<>>
    /\ p_pc = "idle"

\* no blob: the state of the blob codec while other components run
BlobIdle ==
    /\ b_in = <<>>
    /\ b_enc = <<>>
    /\ b_blob = <<>>
    /\ b_flipped = FALSE
    /\ b_dec = <<>>
    /\ b_reader = <<>>
    /\ b_read = <<>>
    /\ b_fin = <<>>

\* no datastore: the state of the chunk store while other components run
GcIdle ==
    /\ g_now = 0
    /\ g_atime = <<>>
    /\ g_indices = {}
    /\ g_locks = {}
    /\ g_writer = <<>>
    /\ g_gc = <<>>
    /\ g_removed = {}
    /\ g_listed = {}

\* no sync: the state of the sync job while other components run
SyncIdle ==
    /\ s_remote = <<>>
    /\ s_local = <<>>
    /\ s_chunks = {}
    /\ s_delete = FALSE
    /\ s_run = <<>>
    /\ s_group = <<>>
    /\ s_snap = <<>>
    /\ s_log = <<>>
    /\ s_faults = 0

\* no tape: the state of the tape layer while other components run
TapeIdle ==
    /\ t_cat = <<>>
    /\ t_sg = <<>>

\* the state of the one-variable components while other components run
UnitIdle ==
    /\ l_loc = <<>>
    /\ m_req = <<>>
    /\ c_fix = <<>>
    /\ c_file = <<>>
    /\ k_keys = <<>>
    /\ d_lock = <<>>
    /\ r_sess = <<>>

(***************************************************************************)
(* Generic helpers                                                         *)
(***************************************************************************)

\* Option<T>: None is the empty sequence, Some(v) is <<v>>.
None == <<>>

Some(v) == <<v>>

IsSome(o) == Len(o) = 1

Range(s) == {s[i] : i \in DOMAIN s}

(***************************************************************************)
(* chrono: calendar fields of a local time                                 *)
(***************************************************************************)

\* days since 1970-01-01 of the local calendar day of epoch second t
LocalDays(t, tz) == (t + tz) \div 86400

\* proleptic Gregorian date <<year, month, day>> of a day count
CivilFromDays(days) ==
    LET z   == days + 719468
        era == z \div 146097
        doe == z - era * 146097
        yoe == (doe - doe \div 1460 + doe \div 36524 - doe \div 146096) \div 365
        doy == doe - (365 * yoe + yoe \div 4 - yoe \div 100)
        mp  == (5 * doy + 2) \div 153
        d   == doy - (153 * mp + 2) \div 5 + 1
        m   == IF mp < 10 THEN mp + 3 ELSE mp - 9
        y   == yoe + era * 400 + (IF m <= 2 THEN 1 ELSE 0)
    IN  <<y, m, d>>

\* day count of January 1st of year y
DaysFromJan1(y) ==
    LET yy  == y - 1
        era == yy \div 400
        yoe == yy - era * 400
        doe == yoe * 365 + yoe \div 4 - yoe \div 100 + 306
    IN  era * 146097 + doe - 719468

\* ISO weekday, Monday = 1 .. Sunday = 7 (1970-01-01 was a Thursday)
IsoWeekday(days) == ((days + 3) % 7) + 1

IsLeapYear(y) == (y % 4 = 0 /\ y % 100 # 0) \/ y % 400 = 0

\* number of ISO weeks of year y
IsoWeeksInYear(y) ==
    LET wd == IsoWeekday(DaysFromJan1(y))
    IN  IF wd = 4 \/ (wd = 3 /\ IsLeapYear(y)) THEN 53 ELSE 52

\* chrono's iso_week().week() of a day count
IsoWeek(days) ==
    LET y    == CivilFromDays(days)[1]
        ord  == days - DaysFromJan1(y) + 1
        week == (ord - IsoWeekday(days) + 10) \div 7
    IN  IF week < 1 THEN IsoWeeksInYear(y - 1)
        ELSE IF week > IsoWeeksInYear(y) THEN 1
        ELSE week

(***************************************************************************)
(* src/backup/prune.rs                                                     *)
(***************************************************************************)

\* enum PruneMark; "Unmarked" stands for an absent key of the HashMap
PruneMark == {"Keep", "KeepPartial", "Remove"}

Buckets == <<"last", "daily", "weekly", "monthly", "yearly">>

\* the select_id closures compute_prune_info passes to mark_selections
SelectId(bucket, info, tz) ==
    LET days == LocalDays(info.backup_time, tz)
        ymd  == CivilFromDays(days)
    IN  CASE bucket = "last"    -> <<"last", info.backup_time>>
          [] bucket = "daily"   -> <<ymd[1], ymd[2], ymd[3]>>
          [] bucket = "weekly"  -> <<ymd[1], IsoWeek(days)>>
          [] bucket = "monthly" -> <<ymd[1], ymd[2]>>
          [] bucket = "yearly"  -> <<ymd[1], ymd[1]>>

\* BackupInfo::sort_list(&mut list, false): newest first
RECURSIVE SortList(_)
SortList(list) ==
    IF list = <<>> THEN <<>>
    ELSE LET newest == CHOOSE i \in DOMAIN list :
                           \A j \in DOMAIN list :
                               \/ list[j].backup_time < list[i].backup_time
                               \/ (list[j].backup_time = list[i].backup_time /\ i <= j)
             rest   == [k \in 1..(Len(list) - 1) |->
                           IF k < newest THEN list[k] ELSE list[k + 1]]
         IN  <<list[newest]>> \o SortList(rest)

\* mark.get(&backup_id)
MarkOf(mark, info) ==
    IF info.backup_time \in DOMAIN mark THEN mark[info.backup_time] ELSE "Unmarked"

\* mark.insert(backup_id, m)
MarkInsert(mark, info, m) ==
    [t \in DOMAIN mark \cup {info.backup_time} |->
        IF t = info.backup_time THEN m ELSE mark[t]]

\* first loop of mark_selections: the ids of the snapshots already kept
AlreadyIncluded(mark, list, bucket, tz) ==
    {SelectId(bucket, list[i], tz) : i \in {j \in DOMAIN list : MarkOf(mark, list[j]) = "Keep"}}

\* mutant of LimitReached: one key too many is let through
LimitReachedOffByOne(include_hash, keep) == Cardinality(include_hash) > keep

\* mutant of LimitReached: a keep value of 0 taken as "no limit"
LimitReachedZeroUnlimited(include_hash, keep) ==
    keep > 0 /\ Cardinality(include_hash) >= keep

\* "if include_hash.len() >= keep { break; }"
LimitReached(include_hash, keep) == Cardinality(include_hash) >= keep

RECURSIVE SelectionLoop(_, _, _, _, _, _, _)
\* second loop of mark_selections, from position i on
SelectionLoop(mark, include_hash, already_included, list, keep, ids, i) ==
    IF i > Len(list) THEN mark
    ELSE IF MarkOf(mark, list[i]) # "Unmarked"
         THEN SelectionLoop(mark, include_hash, already_included, list, keep, ids, i + 1)
    ELSE IF ids[i] \in already_included
         THEN SelectionLoop(mark, include_hash, already_included, list, keep, ids, i + 1)
    ELSE IF ids[i] \notin include_hash
         THEN IF LimitReached(include_hash, keep)
              THEN mark
              ELSE SelectionLoop(MarkInsert(mark, list[i], "Keep"),
                                 include_hash \cup {ids[i]},
                                 already_included, list, keep, ids, i + 1)
    ELSE SelectionLoop(MarkInsert(mark, list[i], "Remove"), include_hash,
                       already_included, list, keep, ids, i + 1)

\* fn mark_selections
MarkSelections(mark, list, keep, bucket, tz) ==
    LET ids == [i \in DOMAIN list |-> SelectId(bucket, list[i], tz)]
    IN  SelectionLoop(mark, {}, AlreadyIncluded(mark, list, bucket, tz),
                      list, keep, ids, 1)

RECURSIVE IncompleteLoop(_, _, _, _)
IncompleteLoop(mark, keep_unfinished, list, i) ==
    IF i > Len(list) THEN mark
    ELSE IF list[i].finished
         THEN IncompleteLoop(mark, FALSE, list, i + 1)
         ELSE IncompleteLoop(
                  MarkInsert(mark, list[i],
                             IF keep_unfinished THEN "KeepPartial" ELSE "Remove"),
                  FALSE, list, i + 1)

\* mutant of RemoveIncompleteSnapshots: every unfinished snapshot newer than
\* the newest finished one is kept
RemoveIncompleteKeepLeading(mark, list) ==
    LET unfinished_head(i) == \A j \in 1..i : ~list[j].finished
    IN  [t \in {list[i].backup_time : i \in {j \in DOMAIN list : ~list[j].finished}} |->
            IF \E i \in DOMAIN list : list[i].backup_time = t /\ unfinished_head(i)
            THEN "KeepPartial" ELSE "Remove"]

\* fn remove_incomplete_snapshots
RemoveIncompleteSnapshots(mark, list) == IncompleteLoop(mark, TRUE, list, 1)

\* mutant of ApplyBucket: an absent option keeps without limit
ApplyBucketNoneUnlimited(mark, list, option, bucket, tz) ==
    MarkSelections(mark, list, IF IsSome(option) THEN option[1] ELSE Len(list),
                   bucket, tz)

\* one "if let Some(keep_x) = options.keep_x { mark_selections(..) }"
ApplyBucket(mark, list, option, bucket, tz) ==
    IF IsSome(option) THEN MarkSelections(mark, list, option[1], bucket, tz)
    ELSE mark

RECURSIVE MarkStages(_, _, _, _)
\* the mark table after remove_incomplete_snapshots followed by the first
\* k buckets, as a sequence of k + 1 tables (oldest first)
MarkStages(sorted, options, tz, k) ==
    IF k = 0 THEN <<RemoveIncompleteSnapshots(<<>>, sorted)>>
    ELSE LET before == MarkStages(sorted, options, tz, k - 1)
         IN  Append(before,
                    ApplyBucket(before[k], sorted, options[Buckets[k]], Buckets[k], tz))

\* the closing map of compute_prune_info
PruneInfoOf(list, mark) ==
    [i \in DOMAIN list |->
        <<list[i], MarkOf(mark, list[i]) \in {"Keep", "KeepPartial"}>>]

\* mutant of ComputePruneInfo: the list is processed and returned as given
ComputePruneInfoUnsorted(list, options, tz) ==
    LET stages == MarkStages(list, options, tz, Len(Buckets))
    IN  [marks |-> stages, info |-> PruneInfoOf(list, stages[Len(stages)])]

\* pub fn compute_prune_info: [marks, info]
ComputePruneInfo(list, options, tz) ==
    LET sorted == SortList(list)
        stages == MarkStages(sorted, options, tz, Len(Buckets))
    IN  [marks |-> stages, info |-> PruneInfoOf(sorted, stages[Len(stages)])]

(***************************************************************************)
(* Inputs of the pruner                                                    *)
(***************************************************************************)

\* largest number of snapshots in a group
MaxSnapshots == 3

\* backup times (epoch seconds, UTC) the snapshots are drawn from:
\*   2019-01-01 12:00, 2019-11-30 12:00, 2019-12-01 12:00, 2019-12-29 12:00,
\*   2019-12-30 08:00, 2019-12-30 20:00, 2019-12-31 23:00
SnapTimes ==
    {1546344000, 1575115200, 1575201600, 1577620800, 1577692800, 1577736000,
     1577833200}

\* local time zones of the server: UTC and UTC+2
TzOffsets == {0, 7200}

BackupInfos == [backup_time : SnapTimes, finished : BOOLEAN]

RECURSIVE AscendingLists(_, _)
\* the lists of at most n snapshots with distinct, ascending backup times
\* later than t
AscendingLists(t, n) ==
    IF n = 0 THEN {<<>>}
    ELSE {<<>>} \cup
         UNION {{<<b>> \o rest : rest \in AscendingLists(b.backup_time, n - 1)} :
                    b \in {c \in BackupInfos : c.backup_time > t}}

KeepOptions(values) == {None} \cup {Some(v) : v \in values}

PruneOptionSets ==
    [last : KeepOptions(1..2), daily : KeepOptions(0..2), weekly : KeepOptions({1}),
     monthly : KeepOptions({1}), yearly : KeepOptions({1})]

PruneInit ==
    /\ p_list \in AscendingLists(0, MaxSnapshots)
    /\ p_options \in PruneOptionSets
    /\ p_tz \in TzOffsets
    /\ p_marks = <<>>
    /\ p_info = <<>>
    /\ p_pc = "input"

\* a call of compute_prune_info(list, &options)
PruneCall ==
    /\ p_pc = "input"
    /\ LET r == ComputePruneInfo(p_list, p_options, p_tz)
       IN  /\ p_marks' = r.marks
           /\ p_info' = r.info
    /\ p_pc' = "done"
    /\ UNCHANGED <<p_list, p_options, p_tz>>
    /\ UNCHANGED <<blob_vars, gc_vars, sync_vars, tape_vars, unit_vars>>

\* longest run of daily snapshots
MaxDays == 11

\* largest keep_daily of the daily-only runs
MaxKeepDaily == 8

\* first backup of a daily run: 2019-11-28 08:00, 2019-12-24 12:00 and
\* 2019-12-25 23:00 (UTC)
DailyStarts == {1574928000, 1577188800, 1577314800}

NoOptions ==
    [last |-> None, daily |-> None, weekly |-> None, monthly |-> None, yearly |-> None]

\* n finished snapshots, one per day, oldest first
DailyList(start, n) ==
    [i \in 1..n |-> [backup_time |-> start + (i - 1) * 86400, finished |-> TRUE]]

\* inputs of the daily-only runs: only keep_daily is set
PruneDailyInit ==
    /\ \E start \in DailyStarts, n \in 1..MaxDays : p_list = DailyList(start, n)
    /\ \E k \in 0..MaxKeepDaily : p_options = [NoOptions EXCEPT !.daily = Some(k)]
    /\ p_tz \in TzOffsets
    /\ p_marks = <<>>
    /\ p_info = <<>>
    /\ p_pc = "input"

RECURSIVE Arrangements(_, _)
\* the lists of at most n snapshots with distinct backup times not in
\* used, in every order
Arrangements(used, n) ==
    IF n = 0 THEN {<<>>}
    ELSE {<<>>} \cup
         UNION {{<<b>> \o rest : rest \in Arrangements(used \cup {b.backup_time}, n - 1)} :
                    b \in {c \in BackupInfos : c.backup_time \notin used}}

OrderOptionSets ==
    {NoOptions,
     [NoOptions EXCEPT !.last = Some(1)],
     [NoOptions EXCEPT !.daily = Some(1), !.weekly = Some(1)]}

\* inputs in every order of the list
PruneOrderInit ==
    /\ p_list \in Arrangements({}, MaxSnapshots)
    /\ p_options \in OrderOptionSets
    /\ p_tz = 0
    /\ p_marks = <<>>
    /\ p_info = <<>>
    /\ p_pc = "input"

InitPrune == PruneInit /\ BlobIdle /\ GcIdle /\ SyncIdle /\ TapeIdle /\ UnitIdle

NextPrune == PruneCall

SpecPrune == InitPrune /\ [][NextPrune]_vars

InitPruneDaily == PruneDailyInit /\ BlobIdle /\ GcIdle /\ SyncIdle /\ TapeIdle /\ UnitIdle

SpecPruneDaily == InitPruneDaily /\ [][NextPrune]_vars

InitPruneOrder == PruneOrderInit /\ BlobIdle /\ GcIdle /\ SyncIdle /\ TapeIdle /\ UnitIdle

SpecPruneOrder == InitPruneOrder /\ [][NextPrune]_vars

(***************************************************************************)
(* Properties of the pruner                                                *)
(***************************************************************************)

\* backup times of the snapshots a result keeps
KeptOf(info) == {info[i][1].backup_time : i \in {j \in DOMAIN info : info[j][2]}}

KeptSet(list, options, tz) == KeptOf(ComputePruneInfo(list, options, tz).info)

NewestTime(list) ==
    CHOOSE t \in {list[i].backup_time : i \in DOMAIN list} :
        \A j \in DOMAIN list : list[j].backup_time <= t

\* C2: an unfinished snapshot (no manifest) is kept exactly when it is the
\* newest snapshot of the group, whatever the keep_* options are.
C2_UnfinishedLatestKept ==
    p_pc = "done" =>
        \A i \in DOMAIN p_list :
            ~p_list[i].finished =>
                ((p_list[i].backup_time \in KeptOf(p_info))
                    <=> (p_list[i].backup_time = NewestTime(p_list)))

\* C2 witness: two unfinished snapshots, every bucket disabled or empty:
\* the newest is kept, the older one is not.
C2_Witness ==
    /\ p_pc = "done"
    /\ Len(p_list) >= 2
    /\ \A i \in DOMAIN p_list : ~p_list[i].finished
    /\ p_options.last = None
    /\ p_options.daily = Some(0)
    /\ KeptOf(p_info) = {NewestTime(p_list)}

\* at most one of the buckets processed after daily is configured
AtMostOneLaterBucket(options) ==
    Cardinality({b \in {"weekly", "monthly", "yearly"} : IsSome(options[b])}) <= 1

\* C3 as claimed: raising keep_daily from K to K + 1, all else equal, never
\* drops a snapshot from the kept set.
C3_DailyMonotone ==
    (p_pc = "done" /\ IsSome(p_options.daily)) =>
        KeptOf(p_info) \subseteq
            KeptSet(p_list, [p_options EXCEPT !.daily = Some(p_options.daily[1] + 1)], p_tz)

\* C3 as amended: raising keep_daily from K to K + 1 never drops a snapshot
\* from the kept set when at most one of keep_weekly, keep_monthly and
\* keep_yearly is set (any keep_last).
C3_DailyMonotoneOneLater ==
    (p_pc = "done" /\ IsSome(p_options.daily) /\ AtMostOneLaterBucket(p_options)) =>
        KeptOf(p_info) \subseteq
            KeptSet(p_list, [p_options EXCEPT !.daily = Some(p_options.daily[1] + 1)], p_tz)

\* C3 witness: keep_last, keep_daily = K and keep_weekly are set, something
\* is kept, and keep_daily = K + 1 keeps a different (larger) set.
C3_Witness ==
    /\ p_pc = "done"
    /\ IsSome(p_options.daily)
    /\ IsSome(p_options.last)
    /\ IsSome(p_options.weekly)
    /\ AtMostOneLaterBucket(p_options)
    /\ KeptOf(p_info) # {}
    /\ KeptOf(p_info) #
           KeptSet(p_list, [p_options EXCEPT !.daily = Some(p_options.daily[1] + 1)], p_tz)

\* C4 as claimed: replacing any keep_* = Some(n) by None keeps a superset.
C4_RemoveOptionGrows ==
    p_pc = "done" =>
        \A b \in Range(Buckets) :
            IsSome(p_options[b]) =>
                KeptOf(p_info) \subseteq KeptSet(p_list, [p_options EXCEPT ![b] = None], p_tz)

\* bucket k is the last configured one in processing order
LastConfigured(options, k) ==
    /\ IsSome(options[Buckets[k]])
    /\ \A j \in DOMAIN Buckets : j > k => options[Buckets[j]] = None

\* C4 as amended: None disables a bucket; replacing keep_* = Some(n) by None,
\* when no bucket processed after it is set, keeps a subset of what was
\* kept with the option present.
C4_RemoveLastOptionShrinks ==
    p_pc = "done" =>
        \A k \in DOMAIN Buckets :
            LastConfigured(p_options, k) =>
                KeptSet(p_list, [p_options EXCEPT ![Buckets[k]] = None], p_tz)
                    \subseteq KeptOf(p_info)

\* C4 witness: dropping the last configured option (with an earlier one
\* still set) loses a snapshot.
C4_Witness ==
    /\ p_pc = "done"
    /\ IsSome(p_options.last)
    /\ LastConfigured(p_options, 3)
    /\ KeptSet(p_list, [p_options EXCEPT !.weekly = None], p_tz) # KeptOf(p_info)
    /\ KeptSet(p_list, [p_options EXCEPT !.weekly = None], p_tz) # {}

\* the list compute_prune_info worked on (sorted), read off its result
SortedOf(info) == [i \in DOMAIN info |-> info[i][1]]

\* C5 as claimed: in every configured bucket, scanning newest first, the
\* first still unmarked snapshot of each of the first keep_N distinct keys
\* is marked Keep, and the later unmarked snapshots sharing such a key are
\* marked Remove.
C5_FirstUnmarkedOfKeyKept ==
    p_pc = "done" =>
        \A k \in DOMAIN Buckets :
            IsSome(p_options[Buckets[k]]) =>
                LET list   == SortedOf(p_info)
                    before == p_marks[k]
                    after  == p_marks[k + 1]
                    keep   == p_options[Buckets[k]][1]
                    id(i)  == SelectId(Buckets[k], list[i], p_tz)
                    un(i)  == MarkOf(before, list[i]) = "Unmarked"
                    first(i) == un(i) /\ \A j \in 1..(i - 1) : un(j) => id(j) # id(i)
                    rank(i) == Cardinality({j \in 1..i : first(j) /\ id(j) # id(i)}) + 1
                IN  \A i \in DOMAIN list :
                        (un(i) /\ rank(i) <= keep) =>
                            MarkOf(after, list[i]) = (IF first(i) THEN "Keep" ELSE "Remove")

\* C5 as amended: a key is open when no snapshot marked Keep by an earlier
\* bucket has it.  Scanning newest first over the unmarked snapshots with
\* an open key, the scan stops at the first snapshot that would start a
\* (keep_N + 1)-th distinct key; before that point the first snapshot of
\* each key becomes Keep and the others Remove; every other mark is left
\* as it was.
C5_BucketSelectionRule ==
    p_pc = "done" =>
        \A k \in DOMAIN Buckets :
            IsSome(p_options[Buckets[k]]) =>
                LET list   == SortedOf(p_info)
                    before == p_marks[k]
                    after  == p_marks[k + 1]
                    keep   == p_options[Buckets[k]][1]
                    id(i)  == SelectId(Buckets[k], list[i], p_tz)
                    kept   == {id(j) : j \in {x \in DOMAIN list :
                                                 MarkOf(before, list[x]) = "Keep"}}
                    open(i)  == MarkOf(before, list[i]) = "Unmarked" /\ id(i) \notin kept
                    first(i) == open(i) /\ \A j \in 1..(i - 1) : open(j) => id(j) # id(i)
                    rank(i)  == Cardinality({j \in 1..i : first(j)})
                    stops    == {i \in DOMAIN list : first(i) /\ rank(i) > keep}
                    stop     == IF stops = {} THEN Len(list) + 1
                                ELSE CHOOSE i \in stops : \A j \in stops : i <= j
                IN  \A i \in DOMAIN list :
                        MarkOf(after, list[i]) =
                            IF open(i) /\ i < stop
                            THEN (IF first(i) THEN "Keep" ELSE "Remove")
                            ELSE MarkOf(before, list[i])

\* C5 witness: the daily bucket keeps one snapshot, removes a later one of
\* the same day, and stops before an older day.
C5_Witness ==
    /\ p_pc = "done"
    /\ p_options.last = None
    /\ p_options.daily = Some(1)
    /\ Len(p_info) = 3
    /\ MarkOf(p_marks[3], p_info[1][1]) = "Keep"
    /\ MarkOf(p_marks[3], p_info[2][1]) = "Remove"
    /\ MarkOf(p_marks[3], p_info[3][1]) = "Unmarked"

\* the list is a run of finished snapshots on consecutive local days
ConsecutiveDays(list, tz) ==
    /\ \A i \in DOMAIN list : list[i].finished
    /\ \A i \in 1..(Len(list) - 1) :
           LocalDays(list[i + 1].backup_time, tz) = LocalDays(list[i].backup_time, tz) + 1

OnlyDaily(options) ==
    IsSome(options.daily) /\ options = [NoOptions EXCEPT !.daily = options.daily]

\* the n largest elements of a set of numbers
RECURSIVE Largest(_, _)
Largest(S, n) ==
    IF n = 0 \/ S = {} THEN {}
    ELSE LET m == CHOOSE x \in S : \A y \in S : y <= x
         IN  {m} \cup Largest(S \ {m}, n - 1)

\* C6: with only keep_daily = K and N finished snapshots on N consecutive
\* local days, exactly the min(K, N) most recent snapshots are kept.
C6_DailyKeepsMostRecent ==
    (p_pc = "done" /\ OnlyDaily(p_options) /\ ConsecutiveDays(p_list, p_tz)) =>
        KeptOf(p_info) = Largest({p_list[i].backup_time : i \in DOMAIN p_list},
                                 p_options.daily[1])

\* C6 witness: 11 daily snapshots, keep_daily = 7: 7 kept, 4 removed.
C6_Witness ==
    /\ p_pc = "done"
    /\ OnlyDaily(p_options)
    /\ ConsecutiveDays(p_list, p_tz)
    /\ Len(p_list) = 11
    /\ p_options.daily = Some(7)
    /\ Cardinality(KeptOf(p_info)) = 7
    /\ Cardinality({i \in DOMAIN p_info : ~p_info[i][2]}) = 4

\* C7 as claimed: the result lists the snapshots in the order of the input.
C7_OriginalOrder ==
    p_pc = "done" => SortedOf(p_info) = p_list

\* C7 as amended: the result holds one pair per input snapshot, ordered by
\* backup time, newest first, whatever the order of the input.
C7_NewestFirstOrder ==
    p_pc = "done" =>
        /\ Len(p_info) = Len(p_list)
        /\ \A i \in DOMAIN p_list :
               Cardinality({j \in DOMAIN p_info : p_info[j][1] = p_list[i]}) = 1
        /\ \A j \in 1..(Len(p_info) - 1) :
               p_info[j][1].backup_time > p_info[j + 1][1].backup_time

\* C7 witness: an input that is neither ascending nor descending.
C7_Witness ==
    /\ p_pc = "done"
    /\ Len(p_list) = 3
    /\ p_list[1].backup_time < p_list[2].backup_time
    /\ p_list[3].backup_time < p_list[2].backup_time
    /\ p_list[3].backup_time > p_list[1].backup_time
    /\ SortedOf(p_info) = <<p_list[2], p_list[3], p_list[1]>>

(***************************************************************************)
(* Byte strings                                                            *)
(*                                                                         *)
(* A byte string is a sequence of runs <<symbol, count>>: count copies of  *)
(* the symbol.  In normal form no run is empty and neighbouring runs have  *)
(* different symbols, so equal byte strings are equal values, and strings  *)
(* of 16 MiB or 128 MiB are as small as strings of one byte.               *)
(***************************************************************************)

RECURSIVE Normalize(_)
Normalize(b) ==
    IF b = <<>> THEN <<>>
    ELSE IF b[1][2] = 0 THEN Normalize(Tail(b))
    ELSE LET rest == Normalize(Tail(b))
         IN  IF rest # <<>> /\ rest[1][1] = b[1][1]
             THEN <<<<b[1][1], b[1][2] + rest[1][2]>>>> \o Tail(rest)
             ELSE <<b[1]>> \o rest

RECURSIVE BytesLen(_)
\* data.len()
BytesLen(b) == IF b = <<>> THEN 0 ELSE b[1][2] + BytesLen(Tail(b))

RECURSIVE Unpack(_)
\* the symbols of a (short) byte string, one by one
Unpack(b) ==
    IF b = <<>> THEN <<>> ELSE [i \in 1..b[1][2] |-> b[1][1]] \o Unpack(Tail(b))

\* a symbol with its lowest bit flipped
FlipBit(v) == IF v % 2 = 0 THEN v + 1 ELSE v - 1

\* the byte string b with the lowest bit of the first byte of run r flipped
FlipAt(b, r) ==
    Normalize(SubSeq(b, 1, r - 1)
                \o <<<<FlipBit(b[r][1]), 1>>, <<b[r][1], b[r][2] - 1>>>>
                \o SubSeq(b, r + 1, Len(b)))

\* Result<T, Error>, and the third way a call can end
Ok(v) == [kind |-> "Ok", val |-> v]

Err(e) == [kind |-> "Err", val |-> e]

Panic(e) == [kind |-> "Panic", val |-> e]

(***************************************************************************)
(* crc32fast, zstd and CryptConfig as the blob codec uses them             *)
(***************************************************************************)

\* the checksum keeps 15 bits, so that every product stays a machine integer
CrcModulus == 32768

RECURSIVE Crc32(_)
\* crc32fast::Hasher over a byte string.  Like CRC32 the sum changes
\* whenever one bit of the string changes.
Crc32(b) ==
    IF b = <<>> THEN 0
    ELSE ((((b[1][1] + 1) % CrcModulus) * (b[1][2] % CrcModulus)) + Crc32(Tail(b)))
             % CrcModulus

\* first byte of a zstd frame (magic number 0xFD2FB528, little endian)
ZstdMagic == 40

RECURSIVE ZstdRuns(_)
\* the body of a frame: every run of the input as the pair symbol, count
ZstdRuns(data) ==
    IF data = <<>> THEN <<>>
    ELSE <<<<data[1][1], 1>>, <<data[1][2], 1>>>> \o ZstdRuns(Tail(data))

\* zstd::block::compress / zstd::stream::copy_encode: a frame is the magic
\* followed by the runs of the input, so its length grows with the number
\* of runs and not with the length of the input
ZstdCompress(data) == Normalize(<<<<ZstdMagic, 1>>>> \o ZstdRuns(data))

\* the content of a frame, or the error of a frame that is not well formed
ZstdDecode(frame) ==
    IF frame = <<>> \/ frame[1] # <<ZstdMagic, 1>>
    THEN Err("Unknown frame descriptor")
    ELSE LET syms == Unpack(frame)
         IN  IF Len(syms) % 2 = 0 THEN Err("Src size is incorrect")
             ELSE Ok(Normalize([i \in 1..((Len(syms) - 1) \div 2) |->
                                    <<syms[2 * i], syms[2 * i + 1]>>]))

\* zstd::block::decompress(frame, capacity): the content of the frame must
\* fit into capacity bytes
ZstdDecompress(frame, capacity) ==
    LET data == ZstdDecode(frame)
    IN  IF data.kind = "Ok" /\ BytesLen(data.val) > capacity
        THEN Err("Destination buffer is too small")
        ELSE data

\* the keys of the CryptConfigs in use
Keys == {1, 2}

\* the IVs encrypt_to may draw
Ivs == {0, 1}

\* the key stream of AES-GCM under a key and an IV
KeyStream(key, iv) == 2 * key + iv

\* one symbol under the key stream p: an involution, like XOR
CryptSymbol(v, p) == IF (v \div p) % 2 = 0 THEN v + p ELSE v - p

\* Crypter::update over a byte string, encrypting or decrypting
Crypt(b, key, iv) ==
    [i \in DOMAIN b |-> <<CryptSymbol(b[i][1], KeyStream(key, iv)), b[i][2]>>]

\* the AEAD tag of a plaintext under a key and an IV
AeadTag(key, iv, plain) == <<key, iv, plain>>

\* CryptConfig::compute_auth_tag: HMAC of the data under the key
ComputeAuthTag(key, data) == <<key, data>>

\* CryptConfig::decode_uncompressed_chunk: decrypt, then verify the tag
DecodeUncompressedChunk(key, body, iv, tag) ==
    LET plain == Crypt(body, key, iv)
    IN  IF AeadTag(key, iv, plain) = tag THEN Ok(plain)
        ELSE Err("decrypt failed")

\* CryptConfig::decode_compressed_chunk: decrypt, verify the tag, then
\* decompress; at most capacity bytes may come out
DecodeCompressedChunk(key, body, iv, tag, capacity) ==
    LET plain == DecodeUncompressedChunk(key, body, iv, tag)
    IN  IF plain.kind = "Ok" THEN ZstdDecompress(plain.val, capacity) ELSE plain

(***************************************************************************)
(* src/backup/data_blob.rs: DataBlob                                       *)
(***************************************************************************)

\* const MAX_BLOB_SIZE: usize = 128*1024*1024
MAX_BLOB_SIZE == 134217728

\* the capacity 16*1024*1024 decode gives zstd for an AUTH_COMPR blob
AUTH_DECOMPRESS_CAPACITY == 16777216

BlobMagics ==
    {"UNCOMPRESSED_BLOB_MAGIC_1_0", "COMPRESSED_BLOB_MAGIC_1_0",
     "ENCRYPTED_BLOB_MAGIC_1_0", "ENCR_COMPR_BLOB_MAGIC_1_0",
     "AUTHENTICATED_BLOB_MAGIC_1_0", "AUTH_COMPR_BLOB_MAGIC_1_0"}

\* raw_data of a DataBlob, field by field: DataBlobHeader (magic, crc),
\* the iv and tag of the longer headers, and the bytes after the header
DataBlob(magic, crc, iv, tag, body) ==
    [magic |-> magic, crc |-> crc, iv |-> iv, tag |-> tag, body |-> body]

\* DataBlob::compute_crc: the checksum of the bytes after the header
ComputeCrc(blob) == Crc32(blob.body)

\* blob.set_crc(blob.compute_crc())
SetCrc(blob) == [blob EXCEPT !.crc = ComputeCrc(blob)]

\* DataBlob::verify_crc
VerifyCrc(blob) ==
    IF ComputeCrc(blob) # blob.crc THEN Err("Data blob has wrong CRC checksum.")
    ELSE Ok(<<>>)

\* "We only use compression if result is shorter"
UseCompression(compress, data) ==
    compress /\ BytesLen(ZstdCompress(data)) < BytesLen(data)

\* DataBlob::encode(data, config, compress); iv is the IV encrypt_to draws
Encode(data, config, compress, iv) ==
    IF BytesLen(data) > MAX_BLOB_SIZE THEN Err("data blob too large")
    ELSE IF IsSome(config)
    THEN LET key == config[1]
             compr == UseCompression(compress, data)
             plain == IF compr THEN ZstdCompress(data) ELSE data
             magic == IF compr THEN "ENCR_COMPR_BLOB_MAGIC_1_0"
                      ELSE "ENCRYPTED_BLOB_MAGIC_1_0"
         IN  Ok(SetCrc(DataBlob(magic, 0, iv, AeadTag(key, iv, plain),
                                Crypt(plain, key, iv))))
    ELSE IF UseCompression(compress, data)
    THEN Ok(SetCrc(DataBlob("COMPRESSED_BLOB_MAGIC_1_0", 0, 0, <<>>,
                            ZstdCompress(data))))
    ELSE Ok(SetCrc(DataBlob("UNCOMPRESSED_BLOB_MAGIC_1_0", 0, 0, <<>>, data)))

\* DataBlob::create_signed(data, config, compress)
CreateSigned(data, key, compress) ==
    IF BytesLen(data) > MAX_BLOB_SIZE THEN Err("data blob too large")
    ELSE LET compr == UseCompression(compress, data)
             signed == IF compr THEN ZstdCompress(data) ELSE data
             magic == IF compr THEN "AUTH_COMPR_BLOB_MAGIC_1_0"
                      ELSE "AUTHENTICATED_BLOB_MAGIC_1_0"
         IN  Ok(SetCrc(DataBlob(magic, 0, 0, ComputeAuthTag(key, signed), signed)))

\* DataBlob::decode(self, config)
Decode(blob, config) ==
    IF blob.magic = "UNCOMPRESSED_BLOB_MAGIC_1_0" THEN Ok(blob.body)
    ELSE IF blob.magic = "COMPRESSED_BLOB_MAGIC_1_0"
    THEN ZstdDecompress(blob.body, MAX_BLOB_SIZE)
    ELSE IF blob.magic \in {"ENCR_COMPR_BLOB_MAGIC_1_0", "ENCRYPTED_BLOB_MAGIC_1_0"}
    THEN IF IsSome(config)
         THEN IF blob.magic = "ENCR_COMPR_BLOB_MAGIC_1_0"
              THEN DecodeCompressedChunk(config[1], blob.body, blob.iv, blob.tag,
                                         MAX_BLOB_SIZE)
              ELSE DecodeUncompressedChunk(config[1], blob.body, blob.iv, blob.tag)
         ELSE Err("unable to decrypt blob - missing CryptConfig")
    ELSE IF blob.magic \in {"AUTH_COMPR_BLOB_MAGIC_1_0", "AUTHENTICATED_BLOB_MAGIC_1_0"}
    THEN IF IsSome(config) /\ ComputeAuthTag(config[1], blob.body) # blob.tag
         THEN Err("verifying blob signature failed")
         ELSE IF blob.magic = "AUTH_COMPR_BLOB_MAGIC_1_0"
         THEN ZstdDecompress(blob.body, AUTH_DECOMPRESS_CAPACITY)
         ELSE Ok(blob.body)
    ELSE Err("Invalid blob magic number.")

(***************************************************************************)
(* DataBlobReader (src/backup/data_blob.rs, src/backup/data_blob_reader.rs)*)
(***************************************************************************)

\* BlobReaderState: the variant with the fields of all variants.  signer
\* is the Option of the key ChecksumReader signs with, key the key of the
\* CryptReader, body the bytes the inner reader holds after the header.
BlobReaderState(state, blob, signer, key) ==
    [state |-> state, expected_crc |-> blob.crc, expected_hmac |-> blob.tag,
     signer |-> signer, key |-> key, iv |-> blob.iv, tag |-> blob.tag,
     body |-> blob.body]

\* DataBlobReader::new(reader, config) of data_blob.rs
DataBlobReaderNew(blob, config) ==
    CASE blob.magic = "UNCOMPRESSED_BLOB_MAGIC_1_0" ->
             Ok(BlobReaderState("Uncompressed", blob, None, None))
      [] blob.magic = "COMPRESSED_BLOB_MAGIC_1_0" ->
             Ok(BlobReaderState("Compressed", blob, None, None))
      [] blob.magic = "AUTHENTICATED_BLOB_MAGIC_1_0" ->
             Ok(BlobReaderState("Signed", blob, config, None))
      [] blob.magic = "AUTH_COMPR_BLOB_MAGIC_1_0" ->
             Ok(BlobReaderState("SignedCompressed", blob, config, None))
      [] blob.magic = "ENCRYPTED_BLOB_MAGIC_1_0" ->
             IF IsSome(config)
             THEN Ok(BlobReaderState("Encrypted", blob, None, config))
             ELSE Panic("called Option::unwrap on a None value")
      [] blob.magic = "ENCR_COMPR_BLOB_MAGIC_1_0" ->
             IF IsSome(config)
             THEN Ok(BlobReaderState("EncryptedCompressed", blob, None, config))
             ELSE Panic("called Option::unwrap on a None value")
      [] OTHER -> Err("got wrong magic number")

\* DataBlobReader::new(reader, config) of data_blob_reader.rs
DataBlobReaderNewArc(blob, config) ==
    CASE blob.magic = "UNCOMPRESSED_BLOB_MAGIC_1_0" ->
             Ok(BlobReaderState("Uncompressed", blob, None, None))
      [] blob.magic = "COMPRESSED_BLOB_MAGIC_1_0" ->
             Ok(BlobReaderState("Compressed", blob, None, None))
      [] blob.magic = "ENCRYPTED_BLOB_MAGIC_1_0" ->
             IF IsSome(config)
             THEN Ok(BlobReaderState("Encrypted", blob, None, config))
             ELSE Err("unable to read encrypted blob without key")
      [] blob.magic = "ENCR_COMPR_BLOB_MAGIC_1_0" ->
             IF IsSome(config)
             THEN Ok(BlobReaderState("EncryptedCompressed", blob, None, config))
             ELSE Err("unable to read encrypted blob without key")
      [] OTHER -> Err("got wrong magic number")

\* what the caller has after reading a DataBlobReader until read returns
\* Ok(0) or an error: the bytes delivered so far, the last result, and what
\* the inner readers have gathered (ChecksumReader: crc and hmac,
\* CryptReader: finalized)
ReadOutcome(delivered, res, st, finalized) ==
    [delivered |-> delivered, res |-> res, crc |-> Crc32(st.body),
     hmac |-> IF IsSome(st.signer) THEN Some(ComputeAuthTag(st.signer[1], st.body))
              ELSE None,
     finalized |-> finalized]

\* impl Read for DataBlobReader, called until the end of the stream
ReadToEnd(st) ==
    CASE st.state \in {"Uncompressed", "Signed"} ->
             ReadOutcome(st.body, Ok(0), st, FALSE)
      [] st.state \in {"Compressed", "SignedCompressed"} ->
             LET data == ZstdDecode(st.body)
             IN  IF data.kind = "Ok" THEN ReadOutcome(data.val, Ok(0), st, FALSE)
                 ELSE ReadOutcome(<<>>, data, st, FALSE)
      [] st.state = "Encrypted" ->
             \* Crypter::update hands out plaintext, finalize checks the tag
             LET plain == Crypt(st.body, st.key[1], st.iv)
                 good == AeadTag(st.key[1], st.iv, plain) = st.tag
             IN  ReadOutcome(plain, IF good THEN Ok(0) ELSE Err("finalize failed"),
                             st, good)
      [] st.state = "EncryptedCompressed" ->
             LET plain == Crypt(st.body, st.key[1], st.iv)
                 good == AeadTag(st.key[1], st.iv, plain) = st.tag
                 data == ZstdDecode(plain)
             IN  IF data.kind # "Ok" THEN ReadOutcome(<<>>, data, st, FALSE)
                 ELSE ReadOutcome(data.val,
                                  IF good THEN Ok(0) ELSE Err("finalize failed"),
                                  st, good)

\* DataBlobReader::finish(self) after the reads that gave outcome
Finish(st, outcome) ==
    IF st.state \in {"Encrypted", "EncryptedCompressed"} /\ ~outcome.finalized
    THEN Err("CryptReader not successfully finalized.")
    ELSE IF outcome.crc # st.expected_crc THEN Err("blob crc check failed")
    ELSE IF /\ st.state \in {"Signed", "SignedCompressed"}
            /\ IsSome(outcome.hmac)
            /\ outcome.hmac[1] # st.expected_hmac
    THEN Err("blob signature check failed")
    ELSE Ok(<<>>)

(***************************************************************************)
(* Inputs and operations of the blob codec                                 *)
(***************************************************************************)

\* most runs of a payload
MaxRuns == 2

ByteSymbols == {0, 1}

\* lengths of a run: short ones, and the ones next to the two size limits
RunLengths ==
    {1, 4, AUTH_DECOMPRESS_CAPACITY, AUTH_DECOMPRESS_CAPACITY + 1,
     MAX_BLOB_SIZE, MAX_BLOB_SIZE + 1}

RECURSIVE Payloads(_)
\* the byte strings of at most n runs, in normal form
Payloads(n) ==
    IF n = 0 THEN {<<>>}
    ELSE {<<>>} \cup
         UNION {{<<<<v, c>>>> \o rest :
                     c \in RunLengths,
                     rest \in {r \in Payloads(n - 1) : r = <<>> \/ r[1][1] # v}} :
                    v \in ByteSymbols}

\* Option<&CryptConfig> of a decoder: none, the key of the encoder, another
Configs == {None} \cup {Some(k) : k \in Keys}

BlobInit ==
    /\ b_in \in [data : Payloads(MaxRuns), config : {None, Some(1)},
                 compress : BOOLEAN]
    /\ b_enc = None
    /\ b_blob = None
    /\ b_flipped = FALSE
    /\ b_dec = None
    /\ b_reader = None
    /\ b_read = None
    /\ b_fin = None

\* the blob an encoder returned is stored
Store(res) == IF res.kind = "Ok" THEN Some(res.val) ELSE None

\* DataBlob::encode(&data, config, compress)
BlobEncode ==
    /\ b_enc = None
    /\ \E iv \in Ivs :
           LET res == Encode(b_in.data, b_in.config, b_in.compress, iv)
           IN  /\ b_enc' = Some(res)
               /\ b_blob' = Store(res)
    /\ UNCHANGED <<b_in, b_flipped, b_dec, b_reader, b_read, b_fin>>
    /\ UNCHANGED <<prune_vars, gc_vars, sync_vars, tape_vars, unit_vars>>

\* DataBlob::create_signed(&data, &config, compress)
BlobCreateSigned ==
    /\ b_enc = None
    /\ IsSome(b_in.config)
    /\ LET res == CreateSigned(b_in.data, b_in.config[1], b_in.compress)
       IN  /\ b_enc' = Some(res)
           /\ b_blob' = Store(res)
    /\ UNCHANGED <<b_in, b_flipped, b_dec, b_reader, b_read, b_fin>>
    /\ UNCHANGED <<prune_vars, gc_vars, sync_vars, tape_vars, unit_vars>>

\* the storage flips one bit of the payload of the stored blob
BlobFlipBit ==
    /\ IsSome(b_blob)
    /\ ~b_flipped
    /\ b_dec = None
    /\ b_reader = None
    /\ \E r \in DOMAIN b_blob[1].body :
           b_blob' = Some([b_blob[1] EXCEPT !.body = FlipAt(@, r)])
    /\ b_flipped' = TRUE
    /\ UNCHANGED <<b_in, b_enc, b_dec, b_reader, b_read, b_fin>>
    /\ UNCHANGED <<prune_vars, gc_vars, sync_vars, tape_vars, unit_vars>>

\* blob.decode(config): consumes the blob
BlobDecode ==
    /\ IsSome(b_blob)
    /\ b_dec = None
    /\ b_reader = None
    /\ \E config \in Configs :
           b_dec' = Some([config |-> config, res |-> Decode(b_blob[1], config)])
    /\ UNCHANGED <<b_in, b_enc, b_blob, b_flipped, b_reader, b_read, b_fin>>
    /\ UNCHANGED <<prune_vars, gc_vars, sync_vars, tape_vars, unit_vars>>

\* DataBlobReader::new(reader, config) of data_blob.rs over the stored blob
BlobReaderNew ==
    /\ IsSome(b_blob)
    /\ b_dec = None
    /\ b_reader = None
    /\ \E config \in Configs :
           b_reader' = Some([config |-> config,
                             res |-> DataBlobReaderNew(b_blob[1], config)])
    /\ UNCHANGED <<b_in, b_enc, b_blob, b_flipped, b_dec, b_read, b_fin>>
    /\ UNCHANGED <<prune_vars, gc_vars, sync_vars, tape_vars, unit_vars>>

\* DataBlobReader::new(reader, config) of data_blob_reader.rs
BlobReaderNewArc ==
    /\ IsSome(b_blob)
    /\ b_dec = None
    /\ b_reader = None
    /\ \E config \in Configs :
           b_reader' = Some([config |-> config,
                             res |-> DataBlobReaderNewArc(b_blob[1], config)])
    /\ UNCHANGED <<b_in, b_enc, b_blob, b_flipped, b_dec, b_read, b_fin>>
    /\ UNCHANGED <<prune_vars, gc_vars, sync_vars, tape_vars, unit_vars>>

\* the caller reads the DataBlobReader to the end of the stream
BlobReaderRead ==
    /\ IsSome(b_reader)
    /\ b_reader[1].res.kind = "Ok"
    /\ b_read = None
    /\ b_read' = Some(ReadToEnd(b_reader[1].res.val))
    /\ UNCHANGED <<b_in, b_enc, b_blob, b_flipped, b_dec, b_reader, b_fin>>
    /\ UNCHANGED <<prune_vars, gc_vars, sync_vars, tape_vars, unit_vars>>

\* reader.finish()
BlobReaderFinish ==
    /\ IsSome(b_read)
    /\ b_fin = None
    /\ b_fin' = Some(Finish(b_reader[1].res.val, b_read[1]))
    /\ UNCHANGED <<b_in, b_enc, b_blob, b_flipped, b_dec, b_reader, b_read>>
    /\ UNCHANGED <<prune_vars, gc_vars, sync_vars, tape_vars, unit_vars>>

InitBlob == BlobInit /\ PruneIdle /\ GcIdle /\ SyncIdle /\ TapeIdle /\ UnitIdle

NextBlob ==
    \/ BlobEncode
    \/ BlobCreateSigned
    \/ BlobFlipBit
    \/ BlobDecode
    \/ BlobReaderNew
    \/ BlobReaderNewArc
    \/ BlobReaderRead
    \/ BlobReaderFinish

SpecBlob == InitBlob /\ [][NextBlob]_vars

(***************************************************************************)
(* Properties of the blob codec                                            *)
(***************************************************************************)

EncryptedMagics == {"ENCRYPTED_BLOB_MAGIC_1_0", "ENCR_COMPR_BLOB_MAGIC_1_0"}

\* C8: blob round trip.  Whenever encode or create_signed has produced a
\* blob (the payload is at most 128 MiB; compress is on or off; the blob is
\* plain, signed or encrypted) and the untouched blob is decoded with the
\* configuration it was made with, decode returns Ok with exactly the
\* original payload.
C8_BlobRoundTrip ==
    (IsSome(b_dec) /\ ~b_flipped /\ b_dec[1].config = b_in.config)
        => (b_dec[1].res.kind = "Ok" /\ b_dec[1].res.val = b_in.data)

\* C9: the CRC is verified before any plaintext is produced.  For a stored
\* blob whose crc field differs from the CRC of its bytes after the header,
\* DataBlob::decode does not return Ok and reading a DataBlobReader over it
\* delivers no payload byte.
C9_CrcBeforePlaintext ==
    (IsSome(b_blob) /\ b_blob[1].crc # ComputeCrc(b_blob[1]))
        => /\ IsSome(b_dec) => b_dec[1].res.kind # "Ok"
           /\ IsSome(b_read) => b_read[1].delivered = <<>>

\* C10: a missing key is an error value.  On a blob with an encrypted magic
\* both DataBlob::decode and DataBlobReader::new, called without a
\* CryptConfig, return Err: they give no data and do not panic.
C10_MissingKeyIsError ==
    (IsSome(b_blob) /\ b_blob[1].magic \in EncryptedMagics)
        => /\ (IsSome(b_dec) /\ b_dec[1].config = None)
                  => b_dec[1].res.kind = "Err"
           /\ (IsSome(b_reader) /\ b_reader[1].config = None)
                  => b_reader[1].res.kind = "Err"

(***************************************************************************)
(* Chunk store, garbage collection (src/backup.rs) and sync writers        *)
(* (src/client/pull.rs)                                                    *)
(***************************************************************************)

\* number of chunk digests
MaxDigests == 2

\* number of sync jobs
MaxWriters == 2

\* number of index files of the snapshot a sync job pulls
MaxIndexes == 2

\* last value of the clock
MaxTime == 2

Digests == 1..MaxDigests

Writers == 1..MaxWriters

\* the 24 hours of relatime: the clock counts days
DAY == 1

\* the grace period of the cutoff, in units of the clock
GRACE == 0

\* the holder of a chunk store lock that is the garbage collector
GC == 0

\* the process of a sync job: odd jobs run in the process of the collector
ProcOf(w) == IF w % 2 = 1 THEN "daemon" ELSE "other"

Max(a, b) == IF a >= b THEN a ELSE b

\* ChunkStore::cond_touch_chunk(digest, _): update the atime if present
CondTouchChunk(atime, d, now) ==
    IF IsSome(atime[d]) THEN [atime EXCEPT ![d] = Some(now)] ELSE atime

\* ChunkStore::insert_chunk(chunk, digest): touch the chunk file if it is
\* present, else write it
InsertChunk(atime, d, now) == [atime EXCEPT ![d] = Some(now)]

\* sweep_unused_chunks on one chunk file: unlink it if atime < cutoff
SweepChunk(atime, d, cutoff) ==
    IF IsSome(atime[d]) /\ atime[d][1] < cutoff THEN [atime EXCEPT ![d] = None]
    ELSE atime

\* the shared lock is not taken
SkipSharedChunkStoreLock(locks, who, now) == locks

\* tgt_store.try_shared_chunk_store_lock(): who holds the lock since now
TrySharedChunkStoreLock(locks, who, now) ==
    locks \cup {[who |-> who, since |-> now]}

\* drop of the lock guard
ReleaseChunkStoreLock(locks, who) == {l \in locks : l.who # who}

\* the exclusive lock excludes the shared locks of other processes only
ExclusiveLockBlocked(locks) ==
    \E l \in locks : l.who # GC /\ ProcOf(l.who) # "daemon"

\* T_oldest: the start of the oldest holder of the shared lock
OldestSharedLock(locks) ==
    CHOOSE t \in {l.since : l \in locks} : \A l \in locks : t <= l.since

\* cutoff = now - max(24h, now - T_oldest) - grace
Cutoff(now, oldest) == now - Max(DAY, now - oldest) - GRACE

\* the digests the index files of the datastore name
ListedDigests(indices) == UNION {i.digests : i \in indices}

\* an index file: its path (job, position; job 0 is an earlier run) and the
\* digests of its chunks
IndexFile(path, digests) == [path |-> path, digests |-> digests]

\* the snapshots a sync job may pull: one to MaxIndexes index files, each
\* naming the digests 1..k
RECURSIVE Jobs(_)
Jobs(n) ==
    IF n = 0 THEN {<<>>}
    ELSE {<<>>} \cup {<<1..k>> \o rest : k \in Digests, rest \in Jobs(n - 1)}

\* the snapshots of a job: only the jobs in the process of the collector
\* pull snapshots of more than one index file
JobsOf(w) ==
    IF ProcOf(w) = "daemon" THEN Jobs(MaxIndexes) \ {<<>>} ELSE Jobs(1) \ {<<>>}

\* a sync job after pull_store has returned: its locals are dropped
WriterGone(pc) ==
    [pc |-> pc, job |-> <<>>, pos |-> 0, todo |-> {}, pending |-> {},
     touched |-> {}, downloaded |-> {}]

\* a sync job before pull_store is called
WriterInit(job) ==
    [pc |-> "idle", job |-> job, pos |-> 1, todo |-> {}, pending |-> {},
     touched |-> {}, downloaded |-> {}]

\* the collector outside of a pass
GcState(pc) == [pc |-> pc, oldest |-> 0, cutoff |-> 0, todo |-> {}]

\* the datastore before the run: chunk files with an old atime, and at most
\* one index file, of an earlier backup or left by an earlier sync of one
\* of the snapshots, all of whose chunks are in the store
GcInit ==
    /\ g_now = 0
    /\ g_atime \in [Digests -> {None, Some(0)}]
    /\ \/ g_indices = {}
       \/ \E w \in {GC} \cup Writers, k \in Digests :
              /\ \A d \in 1..k : IsSome(g_atime[d])
              /\ g_indices = {IndexFile(<<w, 1>>, 1..k)}
    /\ g_locks = {}
    /\ g_writer \in {f \in [Writers -> {WriterInit(j) : j \in Jobs(MaxIndexes) \ {<<>>}}] :
                        \A w \in Writers : f[w].job \in JobsOf(w)}
    /\ g_gc = GcState("idle")
    /\ g_removed = {}
    /\ g_listed = {}

\* time passes, until the pass of the collector has ended
Tick ==
    /\ g_now < MaxTime
    /\ g_gc.pc \notin {"done", "busy"}
    /\ g_now' = g_now + 1
    /\ UNCHANGED <<g_atime, g_indices, g_locks, g_writer, g_gc, g_removed, g_listed>>
    /\ UNCHANGED <<prune_vars, blob_vars, sync_vars, tape_vars, unit_vars>>

RECURSIVE PullSnapshot(_, _, _)
\* pull_snapshot over the items of manifest.files() that are left: an index
\* file that exists and verifies is kept (continue); for the first other
\* one pull_index_chunks starts, which drops the digests in
\* downloaded_chunks and adds the others to it
PullSnapshot(wr, w, indices) ==
    IF wr.job = <<>> THEN [wr EXCEPT !.pc = "next"]
    ELSE LET index == IndexFile(<<w, wr.pos>>, Head(wr.job))
         IN  IF index \in indices
             THEN PullSnapshot([wr EXCEPT !.job = Tail(wr.job), !.pos = wr.pos + 1],
                               w, indices)
             ELSE [wr EXCEPT !.pc = "chunks",
                             !.todo = index.digests \ wr.downloaded,
                             !.downloaded = wr.downloaded \cup index.digests]

\* pull_store: take the shared chunk store lock, which fails while another
\* process holds the exclusive lock, and go to the first index file to pull
PullStoreBegin(w) ==
    /\ g_writer[w].pc = "idle"
    /\ IF g_gc.pc = "sweep" /\ ProcOf(w) # "daemon"
       THEN /\ g_writer' = [g_writer EXCEPT ![w] = WriterGone("failed")]
            /\ UNCHANGED g_locks
       ELSE /\ g_writer' = [g_writer EXCEPT ![w] = PullSnapshot(@, w, g_indices)]
            /\ g_locks' = TrySharedChunkStoreLock(g_locks, w, g_now)
    /\ UNCHANGED <<g_now, g_atime, g_indices, g_gc, g_removed, g_listed>>
    /\ UNCHANGED <<prune_vars, blob_vars, sync_vars, tape_vars, unit_vars>>

\* pull_index_chunks, one chunk: target.cond_touch_chunk(&info.digest,
\* false); a chunk that is not there is fetched from the remote
PullChunkTouch(w, d) ==
    /\ g_writer[w].pc = "chunks"
    /\ d \in g_writer[w].todo
    /\ g_atime' = CondTouchChunk(g_atime, d, g_now)
    /\ IF IsSome(g_atime[d])
       THEN g_writer' = [g_writer EXCEPT ![w].todo = @ \ {d},
                                         ![w].touched = @ \cup {d}]
       ELSE g_writer' = [g_writer EXCEPT ![w].todo = @ \ {d},
                                         ![w].pending = @ \cup {d}]
    /\ UNCHANGED <<g_now, g_indices, g_locks, g_gc, g_removed, g_listed>>
    /\ UNCHANGED <<prune_vars, blob_vars, sync_vars, tape_vars, unit_vars>>

\* the verify pool: target2.insert_chunk(&chunk, &digest)
PullChunkInsert(w, d) ==
    /\ g_writer[w].pc = "chunks"
    /\ d \in g_writer[w].pending
    /\ g_atime' = InsertChunk(g_atime, d, g_now)
    /\ g_writer' = [g_writer EXCEPT ![w].pending = @ \ {d},
                                    ![w].touched = @ \cup {d}]
    /\ UNCHANGED <<g_now, g_indices, g_locks, g_gc, g_removed, g_listed>>
    /\ UNCHANGED <<prune_vars, blob_vars, sync_vars, tape_vars, unit_vars>>

\* pull_single_archive: all chunks are there, rename the .tmp index file;
\* pull_snapshot goes on to the next index file
PullArchiveRename(w) ==
    /\ g_writer[w].pc = "chunks"
    /\ g_writer[w].todo = {}
    /\ g_writer[w].pending = {}
    /\ LET wr == g_writer[w]
           indices == g_indices \cup {IndexFile(<<w, wr.pos>>, Head(wr.job))}
       IN  /\ g_indices' = indices
           /\ g_writer' = [g_writer EXCEPT ![w] =
                               PullSnapshot([wr EXCEPT !.job = Tail(wr.job),
                                                       !.pos = wr.pos + 1],
                                            w, indices)]
    /\ UNCHANGED <<g_now, g_atime, g_locks, g_gc, g_removed, g_listed>>
    /\ UNCHANGED <<prune_vars, blob_vars, sync_vars, tape_vars, unit_vars>>

\* pull_store returns: the lock guard is dropped
PullStoreEnd(w) ==
    /\ g_writer[w].pc = "next"
    /\ g_writer[w].job = <<>>
    /\ g_writer' = [g_writer EXCEPT ![w] = WriterGone("done")]
    /\ g_locks' = ReleaseChunkStoreLock(g_locks, w)
    /\ UNCHANGED <<g_now, g_atime, g_indices, g_gc, g_removed, g_listed>>
    /\ UNCHANGED <<prune_vars, blob_vars, sync_vars, tape_vars, unit_vars>>

\* a download or a verification fails: pull_store ends with the error
PullStoreFail(w) ==
    /\ g_writer[w].pc \in {"next", "chunks"}
    /\ g_writer' = [g_writer EXCEPT ![w] = WriterGone("failed")]
    /\ g_locks' = ReleaseChunkStoreLock(g_locks, w)
    /\ UNCHANGED <<g_now, g_atime, g_indices, g_gc, g_removed, g_listed>>
    /\ UNCHANGED <<prune_vars, blob_vars, sync_vars, tape_vars, unit_vars>>

\* phase 1, steps 1 and 2: take the shared lock, record T_oldest, list the
\* index files
GcMarkBegin ==
    /\ g_gc.pc = "idle"
    /\ LET locks == g_locks \cup {[who |-> GC, since |-> g_now]}
       IN  /\ g_locks' = locks
           /\ g_gc' = [g_gc EXCEPT !.pc = "mark",
                                   !.oldest = OldestSharedLock(locks),
                                   !.todo = ListedDigests(g_indices)]
    /\ UNCHANGED <<g_now, g_atime, g_indices, g_writer, g_removed, g_listed>>
    /\ UNCHANGED <<prune_vars, blob_vars, sync_vars, tape_vars, unit_vars>>

\* phase 1, step 3: cond_touch_chunk(d, true) for a digest of an index file
GcMarkChunk(d) ==
    /\ g_gc.pc = "mark"
    /\ d \in g_gc.todo
    /\ g_atime' = CondTouchChunk(g_atime, d, g_now)
    /\ g_gc' = [g_gc EXCEPT !.todo = @ \ {d}]
    /\ UNCHANGED <<g_now, g_indices, g_locks, g_writer, g_removed, g_listed>>
    /\ UNCHANGED <<prune_vars, blob_vars, sync_vars, tape_vars, unit_vars>>

\* phase 1, step 4: compute the cutoff
GcMarkEnd ==
    /\ g_gc.pc = "mark"
    /\ g_gc.todo = {}
    /\ g_gc' = [g_gc EXCEPT !.pc = "marked", !.cutoff = Cutoff(g_now, g_gc.oldest)]
    /\ UNCHANGED <<g_now, g_atime, g_indices, g_locks, g_writer, g_removed, g_listed>>
    /\ UNCHANGED <<prune_vars, blob_vars, sync_vars, tape_vars, unit_vars>>

\* phase 2, step 1: upgrade to the exclusive lock, or bail out with Busy;
\* then enumerate the chunk files
GcSweepBegin ==
    /\ g_gc.pc = "marked"
    /\ IF ExclusiveLockBlocked(g_locks)
       THEN /\ g_gc' = GcState("busy")
            /\ g_locks' = ReleaseChunkStoreLock(g_locks, GC)
            /\ UNCHANGED g_listed
       ELSE /\ g_gc' = [g_gc EXCEPT !.pc = "sweep",
                                    !.todo = {d \in Digests : IsSome(g_atime[d])}]
            /\ g_listed' = ListedDigests(g_indices)
            /\ UNCHANGED g_locks
    /\ UNCHANGED <<g_now, g_atime, g_indices, g_writer, g_removed>>
    /\ UNCHANGED <<prune_vars, blob_vars, sync_vars, tape_vars, unit_vars>>

\* phase 2, step 2, one chunk file: unlink it if atime < cutoff
GcSweepChunk(d) ==
    /\ g_gc.pc = "sweep"
    /\ d \in g_gc.todo
    /\ g_atime' = SweepChunk(g_atime, d, g_gc.cutoff)
    /\ g_removed' = IF IsSome(g_atime[d]) /\ g_atime'[d] = None
                    THEN g_removed \cup {d} ELSE g_removed
    /\ g_gc' = [g_gc EXCEPT !.todo = @ \ {d}]
    /\ UNCHANGED <<g_now, g_indices, g_locks, g_writer, g_listed>>
    /\ UNCHANGED <<prune_vars, blob_vars, sync_vars, tape_vars, unit_vars>>

\* phase 2, step 3: release the lock
GcSweepEnd ==
    /\ g_gc.pc = "sweep"
    /\ g_gc.todo = {}
    /\ g_gc' = GcState("done")
    /\ g_locks' = ReleaseChunkStoreLock(g_locks, GC)
    /\ UNCHANGED <<g_now, g_atime, g_indices, g_writer, g_removed, g_listed>>
    /\ UNCHANGED <<prune_vars, blob_vars, sync_vars, tape_vars, unit_vars>>

InitGC == GcInit /\ PruneIdle /\ BlobIdle /\ SyncIdle /\ TapeIdle /\ UnitIdle

NextGC ==
    \/ Tick
    \/ \E w \in Writers : PullStoreBegin(w)
    \/ \E w \in Writers, d \in Digests : PullChunkTouch(w, d)
    \/ \E w \in Writers, d \in Digests : PullChunkInsert(w, d)
    \/ \E w \in Writers : PullArchiveRename(w)
    \/ \E w \in Writers : PullStoreEnd(w)
    \/ \E w \in Writers : PullStoreFail(w)
    \/ GcMarkBegin
    \/ \E d \in Digests : GcMarkChunk(d)
    \/ GcMarkEnd
    \/ GcSweepBegin
    \/ \E d \in Digests : GcSweepChunk(d)
    \/ GcSweepEnd

SpecGC == InitGC /\ [][NextGC]_vars

(***************************************************************************)
(* Properties of garbage collection                                        *)
(***************************************************************************)

\* C1: GC safety.  Under every interleaving of sync writers with one pass
\* of garbage collection the sweep removes no chunk that an index file of
\* the datastore named when the sweep began, and every chunk a writer has
\* touched or inserted is in the store for as long as the writer holds the
\* shared chunk store lock.
C1_GcSafety ==
    /\ g_removed \cap g_listed = {}
    /\ \A l \in g_locks :
           l.who # GC => \A d \in g_writer[l.who].touched : IsSome(g_atime[d])

\* the sweep is under way and has removed a chunk next to a writer that
\* holds the shared lock and has touched a chunk, with index files present
\* when it began
C1_Witness ==
    /\ g_gc.pc = "sweep"
    /\ g_removed # {}
    /\ g_listed # {}
    /\ \E l \in g_locks : l.who # GC /\ g_writer[l.who].touched # {}

(***************************************************************************)
(* Pull/sync: the remote datastore, the target datastore and their files   *)
(***************************************************************************)

\* snapshot times are 1..MaxTimes
MaxTimes == 3

\* failures the environment may inject into one behaviour
MaxFaults == 1

\* consecutive pull_store calls
MaxSyncRuns == 2

\* fetches in flight at once; the code allows 20 (try_buffer_unordered)
MaxInFlight == 2

Times == 1..MaxTimes

\* backup groups in the order (backup_type, backup_id) sorts them
SyncGroups == 1..3

\* the groups of the remote; group 3 exists on the target only
RemoteGroups == {1, 2}

\* the identity the sync job runs as, and some other owner
AuthId == "sync@pbs"

OtherId == "user@pbs"

\* archive_type(): the kind of an archive follows from its file name
ArchiveType(filename) ==
    IF filename = "root.didx" THEN "DynamicIndex"
    ELSE IF filename = "disk.fidx" THEN "FixedIndex"
    ELSE "Blob"

\* IndexFile::compute_csum / compute_file_csum: checksum and size of a file
ComputeCsum(content) == [csum |-> <<"sha256", content>>, size |-> Len(content)]

\* the chunk digests of the index of snapshot (g, t) on the remote
IndexDigests(g, t) ==
    IF g = 1 THEN (IF t = 1 THEN <<1>> ELSE <<1, 2, 1>>) ELSE <<2, 3>>

\* the archives of snapshot (g, t) on the remote
RemoteFiles(g, t) ==
    <<[filename |-> "root.didx", content |-> IndexDigests(g, t)]>>
        \o (IF t >= 3 THEN <<[filename |-> "conf.blob", content |-> <<t>>]>>
            ELSE <<>>)

\* the archives of a snapshot (g, t) that was made on the target itself
OwnFiles(g, t) ==
    <<[filename |-> "root.didx",
       content |-> IF t = 2 THEN IndexDigests(g, t) ELSE <<3>>],
      [filename |-> "old.blob", content |-> <<0>>]>>

\* BackupManifest: one FileInfo (filename, csum, size) per archive
Manifest(g, t, files) ==
    [backup_id |-> g, backup_time |-> t,
     files |-> [i \in DOMAIN files |->
                   [filename |-> files[i].filename,
                    csum |-> ComputeCsum(files[i].content).csum,
                    size |-> ComputeCsum(files[i].content).size]]]

\* a snapshot directory of the target: its manifest and its archive files
SnapshotDir(manifest, files) == [manifest |-> manifest, files |-> files]

\* the target's snapshot directory in each of the modelled initial states
LocalSnapshot(g, t, state) ==
    CASE state = "absent" -> None
      [] state = "unfinished" -> Some(SnapshotDir(None, {}))
      [] state = "synced" ->
            Some(SnapshotDir(Some(Manifest(g, t, RemoteFiles(g, t))),
                             Range(RemoteFiles(g, t))))
      [] state = "own" ->
            Some(SnapshotDir(Some(Manifest(g, t, OwnFiles(g, t))),
                             Range(OwnFiles(g, t))))

\* the chunks named by the index files of a set of archive files
FileDigests(files) ==
    UNION {Range(f.content) : f \in {x \in files : ArchiveType(x.filename) # "Blob"}}

\* the snapshot times of a group directory that have a directory
LocalTimes(group) == {t \in DOMAIN group.snaps : IsSome(group.snaps[t])}

\* DataStore::last_successful_backup: the newest snapshot with a manifest
LastSuccessfulBackup(group) ==
    LET fin == {t \in LocalTimes(group) : IsSome(group.snaps[t][1].manifest)}
    IN  IF fin = {} THEN None
        ELSE Some(CHOOSE t \in fin : \A u \in fin : u <= t)

\* the reply to GET .../snapshots for one group, in any order
SnapshotListItems(remote, g) ==
    {[backup_time |-> t,
      size |-> IF remote[g][t] = "finished" THEN Some(1) ELSE None] :
        t \in {u \in DOMAIN remote[g] : remote[g][u] # "absent"}}

\* list.sort_unstable_by(backup_time): ascending by backup time
RECURSIVE SortByTime(_)
SortByTime(items) ==
    IF items = {} THEN <<>>
    ELSE LET first == CHOOSE i \in items :
                          \A j \in items : i.backup_time <= j.backup_time
         IN  <<first>> \o SortByTime(items \ {first})

\* list.sort_unstable_by(backup_type, backup_id): groups in sorted order
RECURSIVE SortGroups(_)
SortGroups(groups) ==
    IF groups = {} THEN <<>>
    ELSE LET first == CHOOSE g \in groups : \A h \in groups : g <= h
         IN  <<first>> \o SortGroups(groups \ {first})

(***************************************************************************)
(* Pull/sync: the decisions of pull.rs and the datastore operations        *)
(***************************************************************************)

\* a verify_archive that compares the size only
VerifyArchiveSizeOnly(info, csum, size) == size = info.size

\* verify_archive: the size and the checksum must be those of the FileInfo
VerifyArchive(info, csum, size) == size = info.size /\ csum = info.csum

\* BackupManifest::verify_file: look the file up, then compare as above
VerifyFile(manifest, filename, csum, size) ==
    \E i \in DOMAIN manifest.files :
        /\ manifest.files[i].filename = filename
        /\ VerifyArchive(manifest.files[i], csum, size)

\* a pull_group that does not skip what is older than the last sync
PullGroupItemKindNoSkip(item, last_sync) ==
    IF item.size = None THEN "in-progress" ELSE "pull"

\* pull_group: what the loop does with one item of the snapshot list
PullGroupItemKind(item, last_sync) ==
    IF item.size = None THEN "in-progress"
    ELSE IF IsSome(last_sync) /\ last_sync[1] > item.backup_time THEN "skipped"
    ELSE "pull"

\* pull_group: remote_snapshots after the loop has seen one list item
RemoteSnapshotsInsert(remote_snapshots, item) ==
    IF item.size = None THEN remote_snapshots
    ELSE remote_snapshots \cup {item.backup_time}

\* a pull_group that goes on with the next snapshot after an error
ContinueAfterSnapshot(result) == "continue"

\* pull_group: "result?; // stop on error" after pull_snapshot_from
PullGroupAfterSnapshot(result) ==
    IF result.kind = "Err" THEN "return" ELSE "continue"

\* a permission check that lets every owner pass
OwnerCheckNever(auth_id, owner) == FALSE

\* pull_store: the permission check on the owner of the group
OwnerCheckFailed(auth_id, owner) == auth_id # owner

\* a pull_store that forgets the errors flag
PullStoreResultOk(errors) == Ok("unit")

\* pull_store: the value returned after the loop and the cleanup
PullStoreResult(errors) ==
    IF errors THEN Err("sync failed with some errors.") ELSE Ok("unit")

\* pull_index_chunks: the stream filter on the downloaded_chunks set
ChunkFilterPasses(downloaded_chunks, digest) == digest \notin downloaded_chunks

\* DataStore::create_locked_backup_group: create the group with its owner
\* file when missing; an existing owner is kept
CreateLockedBackupGroup(local, g, auth_id) ==
    IF IsSome(local[g].owner) THEN local
    ELSE [local EXCEPT ![g].owner = Some(auth_id)]

\* DataStore::create_locked_backup_dir: create the snapshot directory when
\* missing
CreateLockedBackupDir(local, g, t) ==
    IF IsSome(local[g].snaps[t]) THEN local
    ELSE [local EXCEPT ![g].snaps[t] = Some(SnapshotDir(None, {}))]

\* DataStore::remove_backup_dir: remove the snapshot directory
RemoveBackupDir(local, g, t) == [local EXCEPT ![g].snaps[t] = None]

\* DataStore::remove_backup_group: remove the group directory recursively
RemoveBackupGroup(local, g) ==
    [local EXCEPT ![g] = [owner |-> None, snaps |-> [t \in Times |-> None]]]

\* std::fs::rename(tmp_path, path): the archive gets its final name
RenameArchive(local, g, t, filename, content) ==
    [local EXCEPT ![g].snaps[t] =
        Some([@[1] EXCEPT !.files =
                 {f \in @ : f.filename # filename}
                     \cup {[filename |-> filename, content |-> content]}])]

\* std::fs::rename(tmp_manifest_name, manifest_name), then
\* DataStore::cleanup_backup_dir: files the manifest does not list go
RenameManifest(local, g, t, manifest) ==
    [local EXCEPT ![g].snaps[t] =
        Some([manifest |-> Some(manifest),
              files |-> {f \in @[1].files :
                            \E i \in DOMAIN manifest.files :
                                manifest.files[i].filename = f.filename}])]

\* the snapshot directories of the target, as <<group, time>> pairs
LocalDirs(local) ==
    {<<g, t>> \in SyncGroups \X Times : IsSome(local[g].snaps[t])}

\* the snapshot directories of the target that have a manifest
FinishedDirs(local) ==
    {d \in LocalDirs(local) : IsSome(local[d[1]].snaps[d[2]][1].manifest)}

\* the log of one pull_store call, empty
NewLog(local) ==
    [dirs0 |-> LocalDirs(local),
     finished0 |-> FinishedDirs(local),
     manifest0 |-> [d \in FinishedDirs(local) |->
                       local[d[1]].snaps[d[2]][1].manifest],
     groups |-> {}, pulled |-> {}, created |-> {},
     manifests |-> {}, archives |-> {}, chunks |-> [d \in 1..3 |-> 0],
     failed |-> {}, after_failure |-> {}, finalized |-> {}, removed |-> {},
     removed_groups |-> {}, causes |-> {}, vanished |-> {}, cleanup |-> FALSE]

(***************************************************************************)
(* Pull/sync: pull_store, pull_group, pull_snapshot_from, pull_snapshot,   *)
(* pull_single_archive and pull_index_chunks as steps of one sync job      *)
(***************************************************************************)

SnapshotCases ==
    {<<"absent", "absent">>, <<"finished", "absent">>,
     <<"finished", "synced">>, <<"finished", "own">>,
     <<"finished", "unfinished">>, <<"inprogress", "absent">>,
     <<"inprogress", "own">>, <<"absent", "own">>}

\* group 1 holds any mix of snapshots on both sides and has either owner,
\* group 2 is new to the target, group 3 has vanished from the remote
SyncInit ==
    \E cases \in [Times -> SnapshotCases], owner \in {AuthId, OtherId},
       delete \in BOOLEAN :
        /\ s_remote = [g \in RemoteGroups |->
                          [t \in Times |->
                              IF g = 1 THEN cases[t][1]
                              ELSE IF t = 1 THEN "finished" ELSE "absent"]]
        /\ s_local = [g \in SyncGroups |->
                         CASE g = 1 ->
                                [owner |-> Some(owner),
                                 snaps |-> [t \in Times |->
                                               LocalSnapshot(1, t, cases[t][2])]]
                           [] g = 2 ->
                                [owner |-> None, snaps |-> [t \in Times |-> None]]
                           [] g = 3 ->
                                [owner |-> Some(AuthId),
                                 snaps |-> [t \in Times |->
                                               IF t = 1
                                               THEN LocalSnapshot(3, 1, "own")
                                               ELSE None]]]
        /\ s_chunks = UNION {FileDigests(LocalSnapshot(1, t, cases[t][2])[1].files) :
                                t \in {u \in Times : cases[u][2] # "absent"}}
                          \cup {3}
        /\ s_delete = delete
        /\ s_run = [n |-> 0, pc |-> "idle", errors |-> FALSE, list |-> <<>>,
                    gi |-> 0, new_groups |-> {}, results |-> <<>>]
        /\ s_group = None
        /\ s_snap = None
        /\ s_log = <<>>
        /\ s_faults = 0

\* the environment injects one more failure
Fault ==
    /\ s_faults < MaxFaults
    /\ s_faults' = s_faults + 1

\* pull_store up to the loop over the groups: the group list is fetched and
\* sorted; a failure of the request ends the call at once
PullStoreStart ==
    /\ s_run.pc = "idle"
    /\ s_run.n < MaxSyncRuns
    /\ \/ /\ s_run' = [s_run EXCEPT !.n = @ + 1, !.pc = "groups",
                                    !.errors = FALSE,
                                    !.list = SortGroups(DOMAIN s_remote),
                                    !.gi = 1, !.new_groups = DOMAIN s_remote]
          /\ UNCHANGED s_faults
       \/ /\ Fault
          /\ s_run' = [s_run EXCEPT
                          !.n = @ + 1, !.list = <<>>,
                          !.results = Append(@,
                              Err("Failed to retrieve backup groups from remote"))]
    /\ s_log' = NewLog(s_local)
    /\ UNCHANGED <<s_remote, s_local, s_chunks, s_delete, s_group, s_snap>>
    /\ UNCHANGED <<prune_vars, blob_vars, gc_vars, tape_vars, unit_vars>>

\* pull_store, one turn of the loop over the groups up to the first snapshot
\* of pull_group: group lock, owner check, snapshot list, last_sync
PullStoreGroup ==
    /\ s_run.pc = "groups"
    /\ s_run.gi <= Len(s_run.list)
    /\ LET g == s_run.list[s_run.gi]
           local == CreateLockedBackupGroup(s_local, g, AuthId)
           log == [s_log EXCEPT !.groups = @ \cup {g}]
       IN  \/ /\ Fault
              /\ s_run' = [s_run EXCEPT !.errors = TRUE, !.gi = @ + 1]
              /\ s_log' = [log EXCEPT !.causes = @ \cup {"group lock"}]
              /\ UNCHANGED <<s_local, s_group>>
           \/ /\ OwnerCheckFailed(AuthId, local[g].owner[1])
              /\ s_run' = [s_run EXCEPT !.errors = TRUE, !.gi = @ + 1]
              /\ s_log' = [log EXCEPT !.causes = @ \cup {"owner check"}]
              /\ s_local' = local
              /\ UNCHANGED <<s_group, s_faults>>
           \/ /\ ~OwnerCheckFailed(AuthId, local[g].owner[1])
              /\ s_run' = [s_run EXCEPT !.pc = "snaps"]
              /\ s_group' = Some([list |-> SortByTime(SnapshotListItems(s_remote, g)),
                                  pos |-> 1,
                                  last_sync |-> LastSuccessfulBackup(local[g]),
                                  remote_snapshots |-> {},
                                  downloaded_chunks |-> {}])
              /\ s_log' = log
              /\ s_local' = local
              /\ UNCHANGED s_faults
    /\ UNCHANGED <<s_remote, s_chunks, s_delete, s_snap>>
    /\ UNCHANGED <<prune_vars, blob_vars, gc_vars, tape_vars, unit_vars>>

\* pull_snapshot returned an error: pull_snapshot_from removes a directory
\* it created, pull_group passes the error on and pull_store records it
PullSnapshotErr(local, log, group, g, t, is_new) ==
    LET later == {<<g, group.list[i].backup_time>> :
                     i \in {j \in DOMAIN group.list :
                               /\ j > group.pos
                               /\ PullGroupItemKind(group.list[j],
                                                    group.last_sync) = "pull"}}
        log1 == [log EXCEPT !.failed = @ \cup {<<g, t>>},
                            !.after_failure = @ \cup later]
    IN  /\ s_local' = IF is_new THEN RemoveBackupDir(local, g, t) ELSE local
        /\ s_snap' = None
        /\ IF PullGroupAfterSnapshot(Err("pull_snapshot")) = "return"
           THEN /\ s_group' = None
                /\ s_run' = [s_run EXCEPT !.errors = TRUE, !.gi = @ + 1,
                                          !.pc = "groups"]
                /\ s_log' = [log1 EXCEPT !.causes = @ \cup {"pull_group"}]
           ELSE /\ s_group' = Some([group EXCEPT !.pos = @ + 1])
                /\ s_run' = [s_run EXCEPT !.pc = "snaps"]
                /\ s_log' = log1

\* pull_group, one turn of the loop over the snapshot list, through
\* pull_snapshot_from up to the first archive of pull_snapshot
PullGroupItem ==
    /\ s_run.pc = "snaps"
    /\ s_group[1].pos <= Len(s_group[1].list)
    /\ LET g == s_run.list[s_run.gi]
           frame == s_group[1]
           item == frame.list[frame.pos]
           t == item.backup_time
           kind == PullGroupItemKind(item, frame.last_sync)
           seen == [frame EXCEPT
                       !.remote_snapshots = RemoteSnapshotsInsert(@, item)]
           next == Some([seen EXCEPT !.pos = @ + 1])
           is_new == ~IsSome(s_local[g].snaps[t])
           local == CreateLockedBackupDir(s_local, g, t)
           log == [s_log EXCEPT
                      !.pulled = @ \cup {<<g, t>>},
                      !.created = @ \cup (IF is_new
                                          THEN {[group |-> g, time |-> t,
                                                 last_sync |-> frame.last_sync]}
                                          ELSE {}),
                      !.manifests = @ \cup {<<g, t>>}]
           tmp_manifest == Manifest(g, t, RemoteFiles(g, t))
       IN  IF kind # "pull"
           THEN /\ s_group' = next
                /\ UNCHANGED <<s_remote, s_local, s_run, s_snap, s_log, s_faults>>
           ELSE \/ /\ local[g].snaps[t][1].manifest = Some(tmp_manifest)
                   /\ s_group' = next
                   /\ s_local' = local
                   /\ s_log' = log
                   /\ UNCHANGED <<s_remote, s_run, s_snap, s_faults>>
                \/ /\ local[g].snaps[t][1].manifest # Some(tmp_manifest)
                   /\ s_group' = Some(seen)
                   /\ s_snap' = Some([backup_time |-> t, is_new |-> is_new,
                                      manifest |-> tmp_manifest, fi |-> 1,
                                      tmp |-> None, spos |-> 0,
                                      in_flight |-> {}, channel |-> {}])
                   /\ s_run' = [s_run EXCEPT !.pc = "files"]
                   /\ s_local' = local
                   /\ s_log' = log
                   /\ UNCHANGED <<s_remote, s_faults>>
                \/ /\ Fault  \* 404: the snapshot vanished from the remote
                   /\ s_remote' = [s_remote EXCEPT ![g][t] = "absent"]
                   /\ s_group' = next
                   /\ s_local' = local
                   /\ s_log' = [log EXCEPT !.vanished = @ \cup {<<g, t>>}]
                   /\ UNCHANGED <<s_run, s_snap>>
                \/ /\ Fault  \* any other error of the manifest download
                   /\ PullSnapshotErr(local, log, seen, g, t, is_new)
                   /\ UNCHANGED s_remote
    /\ UNCHANGED <<s_chunks, s_delete>>
    /\ UNCHANGED <<prune_vars, blob_vars, gc_vars, tape_vars, unit_vars>>

\* pull_snapshot, one turn of the loop over manifest.files(): an existing
\* file that verifies is kept; otherwise pull_single_archive downloads the
\* archive to its .tmp name and verifies it; a blob is renamed at once
PullSnapshotFile ==
    /\ s_run.pc = "files"
    /\ s_snap[1].fi <= Len(s_snap[1].manifest.files)
    /\ LET g == s_run.list[s_run.gi]
           snap == s_snap[1]
           t == snap.backup_time
           item == snap.manifest.files[snap.fi]
           existing == {f \in s_local[g].snaps[t][1].files :
                           f.filename = item.filename}
           remote_content == RemoteFiles(g, t)[snap.fi].content
           log == [s_log EXCEPT !.archives = @ \cup {<<g, t, item.filename>>}]
           Pull(content) ==
               LET sum == ComputeCsum(content)
               IN  IF ~VerifyArchive(item, sum.csum, sum.size)
                   THEN PullSnapshotErr(s_local, log, s_group[1], g, t,
                                        snap.is_new)
                   ELSE IF ArchiveType(item.filename) = "Blob"
                   THEN /\ s_local' = RenameArchive(s_local, g, t,
                                                    item.filename, content)
                        /\ s_snap' = Some([snap EXCEPT !.fi = @ + 1])
                        /\ s_log' = log
                        /\ UNCHANGED <<s_run, s_group>>
                   ELSE /\ s_snap' = Some([snap EXCEPT !.tmp = Some(content),
                                                       !.spos = 1])
                        /\ s_run' = [s_run EXCEPT !.pc = "chunks"]
                        /\ s_log' = log
                        /\ UNCHANGED <<s_local, s_group>>
       IN  IF \E f \in existing :
                  VerifyFile(snap.manifest, f.filename,
                             ComputeCsum(f.content).csum,
                             ComputeCsum(f.content).size)
           THEN /\ s_snap' = Some([snap EXCEPT !.fi = @ + 1])
                /\ UNCHANGED <<s_local, s_run, s_group, s_log, s_faults>>
           ELSE \/ /\ Pull(remote_content)
                   /\ UNCHANGED s_faults
                \/ /\ Fault  \* the download delivers damaged content
                   /\ Pull(Append(remote_content, 0))
    /\ UNCHANGED <<s_remote, s_chunks, s_delete>>
    /\ UNCHANGED <<prune_vars, blob_vars, gc_vars, tape_vars, unit_vars>>

\* pull_index_chunks: the stream yields the next chunk of the index; the
\* filter drops a digest that is in downloaded_chunks and enters it if not
PullIndexChunksFilter ==
    /\ s_run.pc = "chunks"
    /\ s_snap[1].spos <= Len(s_snap[1].tmp[1])
    /\ Cardinality(s_snap[1].in_flight) < MaxInFlight
    /\ LET digest == s_snap[1].tmp[1][s_snap[1].spos]
           passes == ChunkFilterPasses(s_group[1].downloaded_chunks, digest)
       IN  /\ s_snap' = Some([s_snap[1] EXCEPT
                                 !.spos = @ + 1,
                                 !.in_flight = IF passes THEN @ \cup {digest}
                                               ELSE @])
           /\ s_group' = Some([s_group[1] EXCEPT
                                  !.downloaded_chunks = @ \cup {digest}])
    /\ UNCHANGED <<s_remote, s_local, s_chunks, s_delete, s_run, s_log, s_faults>>
    /\ UNCHANGED <<prune_vars, blob_vars, gc_vars, tape_vars, unit_vars>>

\* pull_index_chunks: one fetch future: cond_touch_chunk, and when the chunk
\* is missing read_raw_chunk and the hand-over to the verify pool
PullIndexChunksFetch(digest) ==
    /\ s_run.pc = "chunks"
    /\ digest \in s_snap[1].in_flight
    /\ LET g == s_run.list[s_run.gi]
           snap == s_snap[1]
           done == [snap EXCEPT !.in_flight = @ \ {digest}]
           log == [s_log EXCEPT !.chunks[digest] = @ + 1]
       IN  IF digest \in s_chunks
           THEN /\ s_snap' = Some(done)
                /\ UNCHANGED <<s_local, s_run, s_group, s_log, s_faults>>
           ELSE \/ /\ s_snap' = Some([done EXCEPT !.channel = @ \cup {digest}])
                   /\ s_log' = log
                   /\ UNCHANGED <<s_local, s_run, s_group, s_faults>>
                \/ /\ Fault  \* read_raw_chunk fails
                   /\ PullSnapshotErr(s_local, log, s_group[1], g,
                                      snap.backup_time, snap.is_new)
    /\ UNCHANGED <<s_remote, s_chunks, s_delete>>
    /\ UNCHANGED <<prune_vars, blob_vars, gc_vars, tape_vars, unit_vars>>

\* the verify pool: verify_unencrypted and insert_chunk of one chunk; when
\* the chunk does not verify pull_index_chunks fails
PullIndexChunksWrite(digest) ==
    /\ s_run.pc = "chunks"
    /\ digest \in s_snap[1].channel
    /\ \/ /\ s_chunks' = s_chunks \cup {digest}
          /\ s_snap' = Some([s_snap[1] EXCEPT !.channel = @ \ {digest}])
          /\ UNCHANGED <<s_local, s_run, s_group, s_log, s_faults>>
       \/ /\ Fault  \* the chunk received is damaged
          /\ PullSnapshotErr(s_local, s_log, s_group[1], s_run.list[s_run.gi],
                             s_snap[1].backup_time, s_snap[1].is_new)
          /\ UNCHANGED s_chunks
    /\ UNCHANGED <<s_remote, s_delete>>
    /\ UNCHANGED <<prune_vars, blob_vars, gc_vars, tape_vars, unit_vars>>

\* a pull_index_chunks that returns when the stream of the index is used up
PullIndexChunksStreamEnded(snap) == snap.spos > Len(snap.tmp[1])

\* pull_index_chunks returns Ok: the stream of the index is used up, every
\* fetch has been awaited and verify_pool.complete() has joined the writers
PullIndexChunksComplete(snap) ==
    /\ snap.spos > Len(snap.tmp[1])
    /\ snap.in_flight = {}
    /\ snap.channel = {}

\* pull_single_archive after pull_index_chunks returned: the index file is
\* renamed from its .tmp name to its final name
PullSingleArchiveRename ==
    /\ s_run.pc = "chunks"
    /\ PullIndexChunksComplete(s_snap[1])
    /\ LET g == s_run.list[s_run.gi]
           snap == s_snap[1]
           item == snap.manifest.files[snap.fi]
       IN  /\ s_local' = RenameArchive(s_local, g, snap.backup_time,
                                       item.filename, snap.tmp[1])
           /\ s_snap' = Some([snap EXCEPT !.fi = @ + 1, !.tmp = None,
                                          !.spos = 0])
    /\ s_run' = [s_run EXCEPT !.pc = "files"]
    /\ UNCHANGED <<s_remote, s_chunks, s_delete, s_group, s_log, s_faults>>
    /\ UNCHANGED <<prune_vars, blob_vars, gc_vars, tape_vars, unit_vars>>

\* pull_snapshot after the loop over the files: the temporary manifest is
\* renamed over the final one and cleanup_backup_dir removes stale files
PullSnapshotRename ==
    /\ s_run.pc = "files"
    /\ s_snap[1].fi > Len(s_snap[1].manifest.files)
    /\ LET g == s_run.list[s_run.gi]
           t == s_snap[1].backup_time
       IN  /\ s_local' = RenameManifest(s_local, g, t, s_snap[1].manifest)
           /\ s_log' = [s_log EXCEPT !.finalized = @ \cup {<<g, t>>}]
    /\ s_snap' = None
    /\ s_group' = Some([s_group[1] EXCEPT !.pos = @ + 1])
    /\ s_run' = [s_run EXCEPT !.pc = "snaps"]
    /\ UNCHANGED <<s_remote, s_chunks, s_delete, s_faults>>
    /\ UNCHANGED <<prune_vars, blob_vars, gc_vars, tape_vars, unit_vars>>

\* pull_group after the loop: with delete, the local snapshots whose time is
\* not in remote_snapshots are removed; pull_group returns Ok
PullGroupDelete ==
    /\ s_run.pc = "snaps"
    /\ s_group[1].pos > Len(s_group[1].list)
    /\ LET g == s_run.list[s_run.gi]
           gone == IF s_delete
                   THEN LocalTimes(s_local[g]) \ s_group[1].remote_snapshots
                   ELSE {}
       IN  /\ s_local' = [s_local EXCEPT
                             ![g].snaps = [t \in Times |->
                                              IF t \in gone THEN None ELSE @[t]]]
           /\ s_log' = [s_log EXCEPT
                           !.removed = @ \cup {<<g, t>> : t \in gone}]
    /\ s_group' = None
    /\ s_run' = [s_run EXCEPT !.gi = @ + 1, !.pc = "groups"]
    /\ UNCHANGED <<s_remote, s_chunks, s_delete, s_snap, s_faults>>
    /\ UNCHANGED <<prune_vars, blob_vars, gc_vars, tape_vars, unit_vars>>

\* pull_store after the loop: with delete, the local groups the remote did
\* not list are removed, a failure to list or to remove them is
\* recorded; then the result follows from the errors flag
PullStoreCleanup ==
    /\ s_run.pc = "groups"
    /\ s_run.gi > Len(s_run.list)
    /\ LET gone == IF s_delete
                   THEN {g \in SyncGroups :
                            IsSome(s_local[g].owner) /\ g \notin s_run.new_groups}
                   ELSE {}
           Return(errors) ==
               s_run' = [s_run EXCEPT !.pc = "idle", !.errors = errors,
                                      !.results = Append(@, PullStoreResult(errors))]
       IN  \/ /\ s_local' = [g \in SyncGroups |->
                                IF g \in gone
                                THEN RemoveBackupGroup(s_local, g)[g]
                                ELSE s_local[g]]
              /\ s_log' = [s_log EXCEPT !.removed_groups = gone,
                                        !.cleanup = s_delete]
              /\ Return(s_run.errors)
              /\ UNCHANGED s_faults
           \/ /\ Fault  \* remove_backup_group fails for one of the groups
              /\ \E bad \in gone :
                     /\ s_local' = [g \in SyncGroups |->
                                       IF g \in gone \ {bad}
                                       THEN RemoveBackupGroup(s_local, g)[g]
                                       ELSE s_local[g]]
                     /\ s_log' = [s_log EXCEPT
                                     !.removed_groups = gone \ {bad},
                                     !.causes = @ \cup {"remove group"},
                                     !.cleanup = TRUE]
              /\ Return(TRUE)
           \/ /\ s_delete
              /\ Fault  \* list_backup_groups fails
              /\ s_log' = [s_log EXCEPT !.causes = @ \cup {"list groups"},
                                        !.cleanup = TRUE]
              /\ Return(TRUE)
              /\ UNCHANGED s_local
    /\ UNCHANGED <<s_remote, s_chunks, s_delete, s_group, s_snap>>
    /\ UNCHANGED <<prune_vars, blob_vars, gc_vars, tape_vars, unit_vars>>

InitSync == SyncInit /\ PruneIdle /\ BlobIdle /\ GcIdle /\ TapeIdle /\ UnitIdle

NextSync ==
    \/ PullStoreStart
    \/ PullStoreGroup
    \/ PullGroupItem
    \/ PullSnapshotFile
    \/ PullIndexChunksFilter
    \/ \E digest \in 1..3 : PullIndexChunksFetch(digest)
    \/ \E digest \in 1..3 : PullIndexChunksWrite(digest)
    \/ PullSingleArchiveRename
    \/ PullSnapshotRename
    \/ PullGroupDelete
    \/ PullStoreCleanup

SpecSync == InitSync /\ [][NextSync]_vars

(***************************************************************************)
(* Pull/sync: properties                                                   *)
(***************************************************************************)

\* the running pull_store call is the second one and the first returned Ok
SecondRunAfterSuccess ==
    /\ s_run.n = 2
    /\ s_run.results[1].kind = "Ok"
    /\ s_log.vanished = {}

\* C11: sync idempotence: when pull_store runs twice in a row against an
\* unchanged remote and the first run succeeded, the second run requests no
\* chunk and no archive from the remote: every snapshot is either skipped as
\* older than the newest local one or found to have a byte-identical manifest
C11_SyncIdempotent ==
    SecondRunAfterSuccess
        => /\ \A d \in DOMAIN s_log.chunks : s_log.chunks[d] = 0
           /\ s_log.archives = {}
           /\ s_snap = None

\* the running pull_store call has returned
RunEnded == s_run.n >= 1 /\ s_run.pc = "idle"

\* the value the last pull_store call returned
LastResult == s_run.results[Len(s_run.results)]

\* the groups of this run whose local owner is not the syncing identity
MismatchGroups ==
    {g \in s_log.groups :
        IsSome(s_local[g].owner) /\ s_local[g].owner[1] # AuthId}

\* C12: owner mismatch is non-fatal for sync: pull_store pulls no snapshot
\* of a group whose local owner differs from the syncing identity, still
\* processes every other group of the remote list, and the mismatch alone
\* does not make the sync fail
C12_OwnerMismatchNotFatal ==
    (s_run.n >= 1 /\ MismatchGroups # {})
        => /\ \A d \in s_log.pulled : d[1] \notin MismatchGroups
           /\ RunEnded => s_log.groups = DOMAIN s_remote
           /\ (RunEnded /\ s_log.causes = {"owner check"})
                  => LastResult.kind = "Ok"

\* C12 as the code has it: pull_store pulls no snapshot of a group whose
\* local owner differs from the syncing identity and still processes every
\* other group of the remote list, but it records the mismatch as an error
\* and returns Err at the very end of the run
C12_OwnerMismatchSkipsGroup ==
    (s_run.n >= 1 /\ MismatchGroups # {})
        => /\ \A d \in s_log.pulled : d[1] \notin MismatchGroups
           /\ RunEnded => /\ s_log.groups = DOMAIN s_remote
                          /\ LastResult = Err("sync failed with some errors.")

C12_Witness ==
    /\ RunEnded
    /\ MismatchGroups = {1}
    /\ s_log.causes = {"owner check"}
    /\ \E d \in s_log.finalized : d[1] = 2

\* C13: a failure while pulling one snapshot of a group does not abort its
\* sibling snapshots: pull_group still attempts every later eligible
\* snapshot of the group after pull_snapshot_from returned an error
C13_SiblingsStillPulled ==
    RunEnded => s_log.after_failure \subseteq s_log.pulled

\* C13 as the code has it: after pull_snapshot_from returned an error
\* pull_group attempts no later snapshot of that group and returns the
\* error; pull_store records it, still processes the remaining groups and
\* returns Err at the very end
C13_FailureStopsGroup ==
    /\ s_log # <<>> => s_log.after_failure \cap s_log.pulled = {}
    /\ (s_log # <<>> /\ s_log.failed # {}) => "pull_group" \in s_log.causes
    /\ (RunEnded /\ s_log.failed # {})
           => /\ s_log.groups = DOMAIN s_remote
              /\ LastResult = Err("sync failed with some errors.")

C13_Witness ==
    /\ RunEnded
    /\ s_log.after_failure # {}
    /\ \E d \in s_log.failed : d[1] = 1
    /\ \E d \in s_log.finalized : d[1] = 2

\* C14: group-level errors (group lock failure, pull_group error, failure
\* to remove a vanished group) never stop pull_store early: every group of
\* the remote list is attempted, the vanished-group cleanup runs, and
\* pull_store returns an error at the very end if and only if at least one
\* such error was recorded
C14_ErrorsOnlyAtEnd ==
    (RunEnded /\ s_run.list # <<>>)
        => /\ s_log.groups = DOMAIN s_remote
           /\ s_delete => s_log.cleanup
           /\ LastResult = Err("sync failed with some errors.")
                  <=> s_log.causes
                          \cap {"group lock", "pull_group", "remove group"} # {}

\* C14 as the code has it: the errors recorded are group lock failure,
\* owner check failure, pull_group error and failure to list or to remove
\* the vanished groups; none of them stops pull_store early, and pull_store
\* returns an error at the very end if and only if one of them was recorded
C14_AllRecordedErrorsOnlyAtEnd ==
    (RunEnded /\ s_run.list # <<>>)
        => /\ s_log.groups = DOMAIN s_remote
           /\ s_delete => s_log.cleanup
           /\ LastResult = Err("sync failed with some errors.")
                  <=> s_log.causes # {}
           /\ s_log.causes \subseteq {"group lock", "owner check", "pull_group",
                                      "remove group", "list groups"}

C14_Witness ==
    /\ RunEnded
    /\ s_log.causes = {"group lock"}
    /\ s_log.groups = DOMAIN s_remote
    /\ s_log.cleanup
    /\ LastResult.kind = "Err"

\* the snapshot times of group g among a set of <<group, time>> pairs
TimesOf(dirs, g) == {d[2] : d \in {x \in dirs : x[1] = g}}

\* example E4 in group 1: the target holds finished snapshots at times 1 and
\* 2, the remote lists finished snapshots at times 1, 2 and 3
ExampleE4 ==
    /\ s_run.n >= 1
    /\ TimesOf(s_log.dirs0, 1) = {1, 2}
    /\ TimesOf(s_log.finished0, 1) = {1, 2}
    /\ {t \in Times : s_remote[1][t] # "absent"} = {1, 2, 3}
    /\ \A t \in {1, 2, 3} : s_remote[1][t] = "finished"

\* C15: sync creates local snapshot directories only for remote snapshots
\* that are finished and not older than the newest successful local snapshot
\* of the group; with local snapshots T1 < T2 and remote T1, T2, T3 the local
\* group gains exactly one new snapshot directory (T3) and T1 is never
\* requested
C15_OnlyNewerFinishedCreated ==
    /\ s_log # <<>> =>
           \A c \in s_log.created :
               /\ \/ s_remote[c.group][c.time] = "finished"
                  \/ <<c.group, c.time>> \in s_log.vanished
               /\ <<c.group, c.time>> \notin s_log.dirs0
               /\ \A d \in s_log.finished0 :
                      d[1] = c.group => d[2] <= c.time
    /\ ExampleE4 =>
           /\ <<1, 1>> \notin s_log.pulled \cup s_log.manifests
           /\ \A a \in s_log.archives : ~(a[1] = 1 /\ a[2] = 1)
           /\ \A c \in s_log.created : c.group = 1 => c.time = 3
           /\ (RunEnded /\ LastResult.kind = "Ok")
                  => TimesOf(LocalDirs(s_local), 1) = {1, 2, 3}

C15_Witness ==
    /\ ExampleE4
    /\ RunEnded
    /\ s_run.n = 1
    /\ LastResult.kind = "Ok"
    /\ <<1, 3>> \in s_log.finalized
    /\ <<1, 2>> \in s_log.manifests

\* C16: with delete_vanished, pull_group removes a local snapshot only if
\* its backup time does not appear in the snapshot list returned by the
\* remote for that group; a local snapshot whose remote counterpart is
\* listed, also when listed as still in progress, is never removed
C16_RemovedOnlyIfNotListed ==
    s_log # <<>> =>
        \A d \in s_log.removed :
            s_remote[d[1]][d[2]] = "absent" /\ d \notin s_log.vanished

\* C17: during one sync run each chunk digest is requested from the remote
\* at most once, across all indices, snapshots and groups of the run and for
\* every interleaving of the concurrent fetches
C17_ChunkRequestedOnce ==
    s_log # <<>> => \A d \in DOMAIN s_log.chunks : s_log.chunks[d] <= 1

\* the archive files of a snapshot directory are those its manifest lists,
\* each with the checksum and size the manifest gives
ManifestVerifies(dir) ==
    /\ IsSome(dir.manifest)
    /\ \A i \in DOMAIN dir.manifest[1].files :
           \E f \in dir.files :
               /\ f.filename = dir.manifest[1].files[i].filename
               /\ dir.manifest[1].files[i].csum = <<"sha256", f.content>>
               /\ dir.manifest[1].files[i].size = Len(f.content)

\* C18: manifest finalization comes last: pull_snapshot renames the
\* temporary manifest to index.json.blob only after every file listed in it
\* exists under its final name in the snapshot directory and matched the
\* manifest's (csum, size); if any archive fails, the final manifest is not
\* created or replaced
C18_ManifestLast ==
    s_log # <<>> =>
        /\ \A d \in s_log.finalized :
               IsSome(s_local[d[1]].snaps[d[2]])
                   => ManifestVerifies(s_local[d[1]].snaps[d[2]][1])
        /\ \A d \in s_log.pulled \ s_log.finalized :
               IsSome(s_local[d[1]].snaps[d[2]])
                   => s_local[d[1]].snaps[d[2]][1].manifest
                          = IF d \in s_log.finished0 THEN s_log.manifest0[d]
                            ELSE None
        /\ \A d \in s_log.failed :
               /\ d \notin s_log.finalized
               /\ IsSome(s_local[d[1]].snaps[d[2]]) => d \in s_log.dirs0

C18_Witness ==
    /\ RunEnded
    /\ \E d \in s_log.finalized :
           /\ IsSome(s_local[d[1]].snaps[d[2]])
           /\ Len(s_local[d[1]].snaps[d[2]][1].manifest[1].files) = 2
           /\ d \in s_log.finished0
    /\ \E d \in s_log.failed : <<d[1], d[2], "root.didx">> \in s_log.archives

\* C22: index completeness on the sync target: whenever an index file
\* (*.didx or *.fidx) exists under its final name in a target snapshot
\* directory, every chunk digest it lists is present in the target chunk
\* store; pull_single_archive renames the index from .tmp only after all of
\* its missing chunks were fetched, verified and inserted, also when a
\* digest was already marked as downloaded by an earlier index of the run
C22_IndexComplete ==
    \A d \in LocalDirs(s_local) :
        FileDigests(s_local[d[1]].snaps[d[2]][1].files) \subseteq s_chunks

\* two snapshots of group 1 were pulled in one run; the index of the first
\* marked and fetched the digests 1 and 2, which the second names too
C22_Witness ==
    /\ RunEnded
    /\ {<<1, 2>>, <<1, 3>>} \subseteq s_log.finalized \ s_log.dirs0
    /\ s_log.chunks[1] = 1
    /\ s_log.chunks[2] = 1
    /\ {<<1, 2, "root.didx">>, <<1, 3, "root.didx">>} \subseteq s_log.archives

\* C24: a snapshot that vanished on the remote (404 on its manifest) is
\* skipped without a trace: pull_snapshot_from returns Ok, so the snapshot is
\* not a failure of the run and the snapshots after it are not cut off by
\* it, and the target datastore holds no directory for that snapshot if it
\* had none before the call
C24_VanishedLeavesNoTrace ==
    s_log # <<>> =>
        \A d \in s_log.vanished :
            /\ d \notin s_log.failed
            /\ d \notin s_log.dirs0 => d \notin LocalDirs(s_local)

(***************************************************************************)
(* Tape: SgTape::write_block, the tape writer, tape_write_catalog and the  *)
(* encryption key of the SgTape handle                                     *)
(***************************************************************************)

\* catalog files have 0..MaxCatalogSize bytes
MaxCatalogSize == 4

\* bytes one file.read() may return; the code reads PROXMOX_TAPE_BLOCK_SIZE
CopyBufferLen == 2

\* set_encryption calls made on one handle
MaxSetEncryption == 3

\* what the drive answers to one WRITE command
ScsiStatus == {"good", "sense 0/0/2", "sense other"}

\* SgTape::write_block: Ok(false) when written, Ok(true) at the logical end
\* of media (early warning), an io::Error otherwise
WriteBlock(status) ==
    CASE status = "good" -> Ok(FALSE)
      [] status = "sense 0/0/2" -> Ok(TRUE)
      [] OTHER -> Err("write failed")

\* what one write through a TapeWrite can meet: the answer of the drive, or
\* no space left on the medium
WriteOutcomes == ScsiStatus \cup {"ENOSPC"}

\* TapeWrite::write_all / write_header: the data goes out block by block;
\* LEOM seen by a block is remembered (logical_end_of_media) and returned
WriterWrite(leom, outcome) ==
    IF outcome = "ENOSPC" THEN [res |-> Err("ENOSPC"), leom |-> leom]
    ELSE LET block == WriteBlock(outcome)
         IN  IF block.kind = "Err" THEN [res |-> block, leom |-> leom]
             ELSE [res |-> Ok(leom \/ block.val), leom |-> leom \/ block.val]

\* a match that takes every ENOSPC for the logical end of media
TapeWriteCatalogMatchAnyEnospc(result, logical_end_of_media) ==
    IF result.kind = "Ok" THEN "finish(false)"
    ELSE IF result.val = "ENOSPC" THEN "finish(true)"
    ELSE "error"

\* tape_write_catalog: the match on the result of the copy loop
TapeWriteCatalogMatch(result, logical_end_of_media) ==
    IF result.kind = "Ok" THEN "finish(false)"
    ELSE IF result.val = "ENOSPC" /\ logical_end_of_media THEN "finish(true)"
    ELSE "error"

\* SgTape::set_encryption: the flag is set from the argument before the
\* command is sent
EncryptionKeyLoaded(key) == IsSome(key)

\* Drop for SgTape: the key is cleared when the flag says one is loaded
DropClearsKey(encryption_key_loaded) == encryption_key_loaded

TapeInit ==
    /\ \E size \in 0..MaxCatalogSize :
           t_cat = [pc |-> "start", file_size |-> size, remaining |-> 0,
                    written |-> 0, leom |-> FALSE, header_leom |-> FALSE,
                    error |-> None, finish |-> <<>>, result |-> None,
                    actual |-> size, changed |-> "no"]
    /\ t_sg = [encryption_key_loaded |-> FALSE, drive_key |-> FALSE,
               calls |-> 0, dropped |-> FALSE, key_at_drop |-> FALSE,
               clear_issued |-> FALSE]

\* writer.finish(incomplete) is called, with either outcome, and
\* tape_write_catalog returns
CatalogFinish(cat, incomplete, value) ==
    \E ok \in BOOLEAN :
        t_cat' = [cat EXCEPT
                     !.pc = "returned",
                     !.finish = Append(@, [incomplete |-> incomplete, ok |-> ok]),
                     !.result = Some(IF ok THEN Ok(value) ELSE Err("finish failed"))]

\* tape_write_catalog up to the copy loop: the header is written; LEOM at the
\* header finishes the file as incomplete
TapeWriteCatalogHeader ==
    /\ t_cat.pc = "start"
    /\ \E outcome \in WriteOutcomes :
           LET w == WriterWrite(t_cat.leom, outcome)
               cat == [t_cat EXCEPT !.leom = w.leom]
           IN  IF w.res.kind = "Err"
               THEN t_cat' = [cat EXCEPT !.pc = "returned", !.result = Some(w.res)]
               ELSE IF w.res.val
               THEN CatalogFinish([cat EXCEPT !.header_leom = TRUE], TRUE, None)
               ELSE t_cat' = [cat EXCEPT !.pc = "copy",
                                         !.remaining = cat.file_size]
    /\ UNCHANGED t_sg
    /\ UNCHANGED <<prune_vars, blob_vars, gc_vars, sync_vars, unit_vars>>

\* file.read(&mut file_copy_buffer[..]) with written bytes of the file read
\* before: up to a buffer of the bytes the file still has, and 0 at its end
FileRead(actual, written) ==
    IF actual <= written THEN {0}
    ELSE {n \in 1..CopyBufferLen : written + n <= actual}

\* tape_write_catalog, one turn of the copy loop: file.read, the check of
\* the length, writer.write_all
TapeWriteCatalogCopy ==
    /\ t_cat.pc = "copy"
    /\ t_cat.remaining # 0
    /\ \E got \in FileRead(t_cat.actual, t_cat.written),
          outcome \in WriteOutcomes :
           LET w == IF got = 0 THEN [res |-> Ok(t_cat.leom), leom |-> t_cat.leom]
                    ELSE WriterWrite(t_cat.leom, outcome)
           IN  IF got > t_cat.remaining
               THEN t_cat' = [t_cat EXCEPT !.pc = "match",
                                           !.error = Some("changed while reading")]
               ELSE IF w.res.kind = "Err"
               THEN t_cat' = [t_cat EXCEPT !.pc = "match", !.leom = w.leom,
                                           !.error = Some(w.res.val)]
               ELSE t_cat' = [t_cat EXCEPT !.leom = w.leom,
                                           !.remaining = @ - got,
                                           !.written = @ + got]
    /\ UNCHANGED t_sg
    /\ UNCHANGED <<prune_vars, blob_vars, gc_vars, sync_vars, unit_vars>>

\* the catalog file is appended to or truncated while it is copied
CatalogFileChanges ==
    /\ t_cat # <<>>
    /\ t_cat.pc = "copy"
    /\ t_cat.remaining # 0
    /\ t_cat.changed = "no"
    /\ \E actual \in 0..(MaxCatalogSize + CopyBufferLen) :
           /\ actual # t_cat.actual
           /\ t_cat' = [t_cat EXCEPT
                           !.actual = actual,
                           !.changed = IF actual > t_cat.actual THEN "grown"
                                       ELSE "shrunk"]
    /\ UNCHANGED t_sg
    /\ UNCHANGED <<prune_vars, blob_vars, gc_vars, sync_vars, unit_vars>>

\* tape_write_catalog after the copy loop: the match on its result
TapeWriteCatalogReturn ==
    /\ \/ t_cat.pc = "copy" /\ t_cat.remaining = 0
       \/ t_cat.pc = "match"
    /\ LET result == IF t_cat.pc = "copy" THEN Ok("unit")
                     ELSE Err(t_cat.error[1])
           arm == TapeWriteCatalogMatch(result, t_cat.leom)
       IN  CASE arm = "finish(false)" ->
                    CatalogFinish(t_cat, FALSE, Some("content_uuid"))
             [] arm = "finish(true)" -> CatalogFinish(t_cat, TRUE, None)
             [] OTHER -> t_cat' = [t_cat EXCEPT !.pc = "returned",
                                                !.result = Some(result)]
    /\ UNCHANGED t_sg
    /\ UNCHANGED <<prune_vars, blob_vars, gc_vars, sync_vars, unit_vars>>

\* SgTape::set_encryption with or without a key; the command may fail, and
\* a failed command may or may not have changed the key of the drive
SgSetEncryption ==
    /\ ~t_sg.dropped
    /\ t_sg.calls < MaxSetEncryption
    /\ \E key \in {None, Some(1)}, ok \in BOOLEAN, applied \in BOOLEAN :
           /\ ok => applied
           /\ t_sg' = [t_sg EXCEPT
                          !.encryption_key_loaded = EncryptionKeyLoaded(key),
                          !.drive_key = IF applied THEN IsSome(key) ELSE @,
                          !.calls = @ + 1]
    /\ UNCHANGED t_cat
    /\ UNCHANGED <<prune_vars, blob_vars, gc_vars, sync_vars, unit_vars>>

\* Drop for SgTape: set_encryption(None) when the flag is set, its result
\* ignored
SgDrop ==
    /\ ~t_sg.dropped
    /\ LET clear == DropClearsKey(t_sg.encryption_key_loaded)
       IN  \E ok \in BOOLEAN :
               t_sg' = [t_sg EXCEPT
                           !.dropped = TRUE,
                           !.key_at_drop = t_sg.drive_key,
                           !.clear_issued = clear,
                           !.encryption_key_loaded =
                               IF clear THEN EncryptionKeyLoaded(None) ELSE @,
                           !.drive_key = IF clear /\ ok THEN FALSE ELSE @]
    /\ UNCHANGED t_cat
    /\ UNCHANGED <<prune_vars, blob_vars, gc_vars, sync_vars, unit_vars>>

InitTape ==
    TapeInit /\ PruneIdle /\ BlobIdle /\ GcIdle /\ SyncIdle /\ UnitIdle

NextTape ==
    \/ TapeWriteCatalogHeader
    \/ TapeWriteCatalogCopy
    \/ CatalogFileChanges
    \/ TapeWriteCatalogReturn
    \/ SgSetEncryption
    \/ SgDrop

SpecTape == InitTape /\ [][NextTape]_vars

\* a tape_write_catalog call that has begun keeps running
SpecTapeFair ==
    /\ SpecTape
    /\ WF_vars(TapeWriteCatalogHeader)
    /\ WF_vars(TapeWriteCatalogCopy)
    /\ WF_vars(TapeWriteCatalogReturn)

(***************************************************************************)
(* Tape: properties                                                        *)
(***************************************************************************)

\* the logical end of media stopped the write: LEOM at the header, or
\* ENOSPC during the payload with logical_end_of_media set
LeomStopped ==
    \/ t_cat.header_leom
    \/ t_cat.error = Some("ENOSPC") /\ t_cat.leom

C30_CatalogTerminates ==
    /\ <>(t_cat.pc = "returned")
    /\ [](t_cat.changed = "grown" =>
              <>(/\ t_cat.pc = "returned"
                 /\ t_cat.result # Some(Ok(Some("content_uuid")))))

\* C20: on drop the tape handle clears the key: for every sequence of
\* set_encryption calls (with or without key, succeeding or failing), if the
\* drive may still have an encryption key loaded when the SgTape handle is
\* dropped, the drop issues a clear-key command (set_encryption(None))
C20_DropClearsKey ==
    (t_sg.dropped /\ t_sg.key_at_drop) => t_sg.clear_issued

(***************************************************************************)
(* SgTape::locate_file and the offset of the drive's LOCATE command        *)
(***************************************************************************)

\* the tape holds the files 0..MaxFile
MaxFile == 6

\* a drive's LOCATE lands 0..MaxDelta filemarks before or after the one asked
MaxDelta == 2

\* locate_file calls made on one handle
MaxLocateCalls == 3

\* u64::saturating_sub
SaturatingSub(a, b) == IF a > b THEN a - b ELSE 0

\* locate_file: the argument of LOCATE(16) for a position above 1; the
\* numbers of a tape stay far below 2^64, where saturating_add is the sum
FixedPosition(position, locate_offset) ==
    LET fixed_position ==
            IF IsSome(locate_offset)
            THEN IF locate_offset[1] < 0
                 THEN SaturatingSub(position, 0 - locate_offset[1])
                 ELSE position + locate_offset[1]
            ELSE position
    IN  SaturatingSub(fixed_position, 1)

\* one SCSI command of a locate_file call that would move the tape to file
\* newpos: it fails when it is the command the environment lets fail, or
\* when newpos is not on the tape; after a failure no command is sent
ScsiCommand(dr, fail_at, newpos) ==
    IF dr.err THEN dr
    ELSE IF dr.k + 1 = fail_at \/ newpos \notin 0..MaxFile
    THEN [dr EXCEPT !.k = @ + 1, !.err = TRUE]
    ELSE [dr EXCEPT !.k = @ + 1, !.pos = newpos]

\* LOCATE(16) to a filemark, which the drive takes delta filemarks off, and
\* SPACE over one filemark
LocateAndSpace(dr, delta, fixed_position, fail_at) ==
    LET located == ScsiCommand(dr, fail_at, fixed_position + delta)
    IN  ScsiCommand(located, fail_at, located.pos + 1)

\* SgTape::current_file_number (READ POSITION)
CurrentFileNumber(dr, fail_at) == ScsiCommand(dr, fail_at, dr.pos)

\* SgTape::locate_file on the handle h; the call made at line 366 finds
\* locate_offset set and is the LOCATE and SPACE of lines 339-350 again
LocateFile(h, position, fail_at) ==
    LET dr0 == [pos |-> h.pos, k |-> 0, err |-> FALSE]
        Done(dr, offset, result, readback, relocated) ==
            [pos |-> dr.pos, locate_offset |-> offset, result |-> result,
             readback |-> readback, relocated |-> relocated]
    IN  IF position = 0
        THEN LET a == ScsiCommand(dr0, fail_at, 0)
             IN  Done(a, h.locate_offset,
                      IF a.err THEN Err("rewind failed") ELSE Ok("unit"),
                      FALSE, FALSE)
        ELSE IF position = 1
        THEN LET a == ScsiCommand(dr0, fail_at, 0)
                 b == ScsiCommand(a, fail_at, 1)
             IN  Done(b, h.locate_offset,
                      IF b.err THEN Err("locate file failed") ELSE Ok("unit"),
                      FALSE, FALSE)
        ELSE
        LET a == LocateAndSpace(dr0, h.delta,
                                FixedPosition(position, h.locate_offset),
                                fail_at)
        IN  IF a.err
            THEN Done(a, h.locate_offset, Err("locate file failed"),
                      FALSE, FALSE)
            ELSE IF IsSome(h.locate_offset)
            THEN Done(a, h.locate_offset, Ok("unit"), FALSE, FALSE)
            ELSE
            LET b == CurrentFileNumber(a, fail_at)
                offset == Some(position - b.pos)
                c == LocateAndSpace(b, h.delta,
                                    FixedPosition(position, offset), fail_at)
                d == CurrentFileNumber(c, fail_at)
            IN  IF b.err
                THEN Done(b, None, Err("read position failed"), FALSE, FALSE)
                ELSE IF b.pos = position
                THEN Done(b, Some(0), Ok("unit"), TRUE, FALSE)
                ELSE IF c.err
                THEN Done(c, offset, Err("locate file failed"), TRUE, TRUE)
                ELSE IF d.err
                THEN Done(d, offset, Err("read position failed"), TRUE, TRUE)
                ELSE IF d.pos # position
                THEN Done(d, offset,
                          Err("compensating offset did not work"), TRUE, TRUE)
                ELSE Done(d, offset, Ok("unit"), TRUE, TRUE)

\* SgTape::new on a drive with some LOCATE offset, the tape at some file
LocateInit ==
    \E delta \in (0 - MaxDelta)..MaxDelta, pos \in 0..MaxFile :
        l_loc = [delta |-> delta, pos |-> pos, locate_offset |-> None,
                 sets |-> 0, calls |-> 0, offset_was |-> None, last |-> None]

\* one locate_file(position) call, in which at most one SCSI command fails
LocateFileCall ==
    /\ l_loc.calls < MaxLocateCalls
    /\ \E position \in 0..MaxFile, fail_at \in 0..6 :
           LET r == LocateFile(l_loc, position, fail_at)
           IN  l_loc' = [l_loc EXCEPT
                            !.pos = r.pos,
                            !.locate_offset = r.locate_offset,
                            !.sets = IF r.locate_offset # l_loc.locate_offset
                                     THEN @ + 1 ELSE @,
                            !.calls = @ + 1,
                            !.offset_was = l_loc.locate_offset,
                            !.last = Some([position |-> position,
                                           result |-> r.result,
                                           readback |-> r.readback,
                                           relocated |-> r.relocated])]
    /\ UNCHANGED <<prune_vars, blob_vars, gc_vars, sync_vars, tape_vars>>
    /\ UNCHANGED <<m_req, c_fix, c_file, k_keys, d_lock, r_sess>>

InitLocate ==
    /\ LocateInit
    /\ PruneIdle /\ BlobIdle /\ GcIdle /\ SyncIdle /\ TapeIdle
    /\ m_req = <<>> /\ c_fix = <<>> /\ c_file = <<>> /\ k_keys = <<>>
    /\ d_lock = <<>> /\ r_sess = <<>>

NextLocate == LocateFileCall

SpecLocate == InitLocate /\ [][NextLocate]_vars

\* C21: locate_file calibrates itself: for a drive whose LOCATE lands a
\* constant number of filemarks off, the first locate_file(n) with n > 1
\* that reaches the check reads the position back, caches the difference as
\* locate_offset, re-locates once when the position was not n and fails if
\* it is still not n; locate_offset is set at most once per handle; and
\* every locate_file(n) call that returns Ok (first or later, any n) leaves
\* current_file_number() equal to n
C21_LocateCalibrated ==
    /\ l_loc.sets <= 1
    /\ IsSome(l_loc.last) =>
           LET last == l_loc.last[1]
           IN  /\ last.readback =>
                      /\ last.position > 1
                      /\ l_loc.offset_was = None
                      /\ IsSome(l_loc.locate_offset)
               /\ last.result.kind = "Ok" => l_loc.pos = last.position

(***************************************************************************)
(* FixedChunkStream (src/backup/chunk_stream.rs)                           *)
(***************************************************************************)

\* chunk_size is 1..MaxChunkSize bytes
MaxChunkSize == 2

\* the input stream yields up to MaxBuffers buffers of 1..MaxBufferLen bytes
MaxBuffers == 3
MaxBufferLen == 5

\* the bytes first..last of the input, each byte named by its offset
Bytes(first, last) == [i \in 1..(last - first + 1) |-> first + i - 1]

\* the sum of the first n elements of a sequence of lengths
RECURSIVE SumTo(_, _)
SumTo(lens, n) == IF n = 0 THEN 0 ELSE SumTo(lens, n - 1) + lens[n]

\* the n-th buffer of the input stream
InputBuffer(lens, n) == Bytes(SumTo(lens, n - 1), SumTo(lens, n) - 1)

\* FixedChunkStream::poll: let need = self.chunk_size - buffer.len(), in
\* usize; the subtraction overflows when the buffer is longer than
\* chunk_size, and without overflow checks need is then
\* 2^64 - (buffer.len() - chunk_size), which is above the length of any Vec
PollNeed(chunk_size, len) ==
    IF chunk_size >= len THEN [need |-> chunk_size - len, overflow |-> FALSE]
    ELSE [need |-> 0, overflow |-> TRUE]

\* FixedChunkStream::poll on an input stream that is ready: the loop runs
\* until a chunk is returned, the input ends, or the subtraction panics
\* (a build with overflow checks)
RECURSIVE FixedChunkStreamPoll(_)
FixedChunkStreamPoll(st) ==
    IF st.pos > Len(st.lens)
    THEN [st EXCEPT !.buffer = None,
                    !.out = IF IsSome(st.buffer) THEN Append(@, st.buffer[1])
                            ELSE @,
                    !.ended = ~IsSome(st.buffer)]
    ELSE LET data == InputBuffer(st.lens, st.pos)
             buffer == IF IsSome(st.buffer) THEN st.buffer[1] ELSE <<>>
             n == PollNeed(st.chunk_size, Len(buffer))
             need == n.need
             next == [st EXCEPT !.pos = @ + 1,
                                !.overflow = @ \/ n.overflow]
         IN  IF n.overflow /\ st.overflow_checks
             THEN [next EXCEPT !.panicked = TRUE]
             ELSE IF n.overflow \/ need > Len(data)
             THEN FixedChunkStreamPoll(
                      [next EXCEPT !.buffer = Some(buffer \o data)])
             ELSE IF need = Len(data)
             THEN [next EXCEPT !.buffer = None,
                               !.out = Append(@, buffer \o data)]
             ELSE [next EXCEPT
                      !.buffer = Some(SubSeq(data, need + 1, Len(data))),
                      !.out = Append(@, buffer \o SubSeq(data, 1, need))]

\* FixedChunkStream::new(input, chunk_size) over some input stream, in a
\* build with or without overflow checks
FixInit ==
    \E chunk_size \in 1..MaxChunkSize, n \in 0..MaxBuffers,
       overflow_checks \in BOOLEAN :
        \E lens \in [1..n -> 1..MaxBufferLen] :
            c_fix = [chunk_size |-> chunk_size, lens |-> lens, pos |-> 1,
                     buffer |-> None, out |-> <<>>, ended |-> FALSE,
                     overflow |-> FALSE, panicked |-> FALSE,
                     overflow_checks |-> overflow_checks]

\* the consumer polls the stream for the next chunk
FixPoll ==
    /\ ~c_fix.ended
    /\ ~c_fix.panicked
    /\ c_fix' = FixedChunkStreamPoll(c_fix)
    /\ UNCHANGED <<prune_vars, blob_vars, gc_vars, sync_vars, tape_vars>>
    /\ UNCHANGED <<l_loc, m_req, c_file, k_keys, d_lock, r_sess>>

InitFix ==
    /\ FixInit
    /\ PruneIdle /\ BlobIdle /\ GcIdle /\ SyncIdle /\ TapeIdle
    /\ l_loc = <<>> /\ m_req = <<>> /\ c_file = <<>> /\ k_keys = <<>>
    /\ d_lock = <<>> /\ r_sess = <<>>

NextFix == FixPoll

SpecFix == InitFix /\ [][NextFix]_vars

\* the i-th piece of a byte sequence of length total cut at the multiples of
\* chunk_size
CutAt(chunk_size, total, i) ==
    Bytes((i - 1) * chunk_size,
          (IF i * chunk_size < total THEN i * chunk_size ELSE total) - 1)

\* C25: FixedChunkStream re-blocks its input: for every sequence of input
\* buffers of arbitrary sizes (including buffers larger than twice
\* chunk_size) the emitted chunks are the input byte sequence cut at
\* multiples of chunk_size, so every chunk except the last has exactly
\* chunk_size bytes, and the size computation never underflows
C25_FixedChunks ==
    LET total == SumTo(c_fix.lens, Len(c_fix.lens))
    IN  /\ ~c_fix.overflow
        /\ ~c_fix.panicked
        /\ \A i \in DOMAIN c_fix.out :
               c_fix.out[i] = CutAt(c_fix.chunk_size, total, i)
        /\ c_fix.ended =>
               Len(c_fix.out) * c_fix.chunk_size >= total

(***************************************************************************)
(* file_chunker (src/tools.rs)                                             *)
(***************************************************************************)

\* length of the read buffer; READ_BUFFER_SIZE (4 MiB) in the code
ReadBufferLen == 4

\* the file has 0..MaxFileLen bytes; the byte at offset o is named o + 1
MaxFileLen == 5

Min(a, b) == IF a < b THEN a ELSE b

\* file_chunker, the loop over the whole chunks in buf[0..pos] with a
\* callback that returns true; a slice beyond the buffer panics
RECURSIVE ChunkCallbacks(_, _)
ChunkCallbacks(st, start) ==
    IF start + st.chunk_size > st.pos THEN [st |-> st, start |-> start]
    ELSE IF start + st.chunk_size > ReadBufferLen
    THEN [st |-> [st EXCEPT !.pc = "panic"], start |-> start]
    ELSE ChunkCallbacks(
             [st EXCEPT
                 !.calls = Append(@, <<st.file_pos,
                                       SubSeq(st.buf, start + 1,
                                              start + st.chunk_size)>>),
                 !.file_pos = @ + st.chunk_size],
             start + st.chunk_size)

\* file_chunker after the read loop: the callbacks, then at the end of the
\* file the last, shorter chunk, and otherwise the move of the rest to the
\* front of the buffer, after which the next turn reads into tmp = buf[..]
FileChunkerAfterRead(st0) ==
    LET r == ChunkCallbacks(st0, 0)
        st == r.st
        start == r.start
        rest == st.pos - start
    IN  IF st.pc = "panic" THEN st
        ELSE IF st.eof
        THEN IF start < st.pos
             THEN IF st.pos > ReadBufferLen THEN [st EXCEPT !.pc = "panic"]
                  ELSE [st EXCEPT
                           !.pc = "done",
                           !.calls = Append(@, <<st.file_pos,
                                                 SubSeq(st.buf, start + 1,
                                                        st.pos)>>)]
             ELSE [st EXCEPT !.pc = "done"]
        ELSE IF rest > 0
        THEN IF st.pos > ReadBufferLen
             THEN [st EXCEPT !.pc = "out of bounds"]
             ELSE [st EXCEPT
                      !.pc = "read", !.pos = rest, !.tmp = 0,
                      !.buf = [i \in 1..ReadBufferLen |->
                                  IF i <= rest THEN st.buf[start + i]
                                  ELSE st.buf[i]]]
        ELSE [st EXCEPT !.pc = "read", !.pos = 0, !.tmp = 0]

\* file_chunker(file, chunk_size, chunk_cb) is called on some file
FileChunkerInit ==
    \E chunk_size \in 1..ReadBufferLen, size \in 0..MaxFileLen :
        c_file = [chunk_size |-> chunk_size, size |-> size, read |-> 0,
                  buf |-> [i \in 1..ReadBufferLen |-> 0], pos |-> 0,
                  tmp |-> 0, file_pos |-> 0, eof |-> FALSE, pc |-> "read",
                  calls |-> <<>>]

\* one file.read(tmp) of the inner loop, which returns any number of bytes
\* up to the length of tmp, or 0 at the end of the file; when the inner loop
\* ends with it, the rest of the turn of the outer loop follows
FileChunkerRead ==
    /\ c_file.pc = "read"
    /\ LET st == c_file
           left == st.size - st.read
       IN  IF left = 0
           THEN c_file' = FileChunkerAfterRead([st EXCEPT !.eof = TRUE])
           ELSE \E n \in 1..Min(left, ReadBufferLen - st.tmp) :
                    LET got == [st EXCEPT
                                   !.buf = [i \in 1..ReadBufferLen |->
                                               IF i > st.tmp /\ i <= st.tmp + n
                                               THEN st.read + i - st.tmp
                                               ELSE st.buf[i]],
                                   !.read = @ + n,
                                   !.pos = @ + n,
                                   !.tmp = @ + n]
                    IN  c_file' = IF got.pos < st.chunk_size THEN got
                                  ELSE FileChunkerAfterRead(got)
    /\ UNCHANGED <<prune_vars, blob_vars, gc_vars, sync_vars, tape_vars>>
    /\ UNCHANGED <<l_loc, m_req, c_fix, k_keys, d_lock, r_sess>>

InitFileChunker ==
    /\ FileChunkerInit
    /\ PruneIdle /\ BlobIdle /\ GcIdle /\ SyncIdle /\ TapeIdle
    /\ l_loc = <<>> /\ m_req = <<>> /\ c_fix = <<>> /\ k_keys = <<>>
    /\ d_lock = <<>> /\ r_sess = <<>>

NextFileChunker == FileChunkerRead

SpecFileChunker == InitFileChunker /\ [][NextFileChunker]_vars

\* C26: file_chunker delivers the file unchanged: for every chunk_size up to
\* the length of the read buffer and every pattern of read() return lengths,
\* with a callback that always returns true, the callback is invoked with
\* (offset, bytes) pairs that are exactly the file content cut at multiples
\* of chunk_size, in order, only the last chunk being allowed to be shorter
C26_FileDelivered ==
    /\ c_file.pc \in {"read", "done"}
    /\ \A i \in DOMAIN c_file.calls :
           c_file.calls[i] =
               <<(i - 1) * c_file.chunk_size,
                 Bytes((i - 1) * c_file.chunk_size + 1,
                       Min(i * c_file.chunk_size, c_file.size))>>
    /\ c_file.pc = "done" =>
           Len(c_file.calls) * c_file.chunk_size >= c_file.size

(***************************************************************************)
(* The tape key stores (src/config/tape_encryption_keys.rs)                *)
(***************************************************************************)

\* fingerprints are 1..MaxFingerprints, key material is 1..MaxKeys
MaxFingerprints == 2
MaxKeys == 2

\* insert_key calls
MaxInsertCalls == 2

\* HashMap::insert
MapInsert(map, k, v) ==
    [x \in DOMAIN map \cup {k} |-> IF x = k THEN v ELSE map[x]]

\* the maps with keys among 1..MaxFingerprints and values among 1..MaxKeys
KeyMaps ==
    UNION {[fps -> 1..MaxKeys] : fps \in SUBSET (1..MaxFingerprints)}

\* the steps of insert_key that can fail
InsertKeySteps ==
    {"open_file_locked", "load_keys", "load_key_configs", "save_keys",
     "save_key_configs"}

\* insert_key(key, key_config, force) on the two files; fail names the step
\* that fails, if one does; replace_file puts the new content in place or
\* leaves the file as it was
InsertKey(files, key, key_config, force, fail) ==
    LET Return(keys, configs, result) ==
            [keys |-> keys, configs |-> configs, result |-> result]
        key_map == files.keys
        config_map == files.configs
    IN  IF fail \in {"open_file_locked", "load_keys", "load_key_configs"}
        THEN Return(files.keys, files.configs, Err(fail))
        ELSE IF ~IsSome(key_config.fingerprint)
        THEN Return(files.keys, files.configs,
                    Err("missing encryption key fingerprint"))
        ELSE
        LET fingerprint == key_config.fingerprint[1]
            key_map2 == MapInsert(key_map, fingerprint, key)
            config_map2 == MapInsert(config_map, fingerprint, key_config.id)
        IN  IF ~force /\ fingerprint \in DOMAIN config_map
            THEN Return(files.keys, files.configs, Err("already exists"))
            ELSE IF fail = "save_keys"
            THEN Return(files.keys, files.configs, Err(fail))
            ELSE IF fail = "save_key_configs"
            THEN Return(key_map2, files.configs, Err(fail))
            ELSE Return(key_map2, config_map2, Ok("unit"))

\* the two files hold the same fingerprints
KeyInit ==
    \E keys \in KeyMaps, configs \in KeyMaps :
        /\ DOMAIN keys = DOMAIN configs
        /\ k_keys = [keys |-> keys, configs |-> configs, calls |-> 0,
                     last |-> None]

\* one insert_key call
InsertKeyCall ==
    /\ k_keys.calls < MaxInsertCalls
    /\ \E key \in 1..MaxKeys, id \in 1..MaxKeys,
          fingerprint \in {None} \cup {Some(f) : f \in 1..MaxFingerprints},
          force \in BOOLEAN, fail \in InsertKeySteps \cup {"none"} :
           LET r == InsertKey(k_keys, key,
                              [id |-> id, fingerprint |-> fingerprint],
                              force, fail)
           IN  k_keys' =
                   [keys |-> r.keys, configs |-> r.configs,
                    calls |-> k_keys.calls + 1,
                    last |-> Some([fingerprint |-> fingerprint,
                                   force |-> force,
                                   keys |-> k_keys.keys,
                                   configs |-> k_keys.configs,
                                   result |-> r.result])]
    /\ UNCHANGED <<prune_vars, blob_vars, gc_vars, sync_vars, tape_vars>>
    /\ UNCHANGED <<l_loc, m_req, c_fix, c_file, d_lock, r_sess>>

InitKeys ==
    /\ KeyInit
    /\ PruneIdle /\ BlobIdle /\ GcIdle /\ SyncIdle /\ TapeIdle
    /\ l_loc = <<>> /\ m_req = <<>> /\ c_fix = <<>> /\ c_file = <<>>
    /\ d_lock = <<>> /\ r_sess = <<>>

NextKeys == InsertKeyCall

SpecKeys == InitKeys /\ [][NextKeys]_vars

\* C27: the tape key stores stay consistent: if the plain-key file and the
\* key-config file hold the same set of fingerprints before insert_key, they
\* hold the same set after it, whether it returns Ok or an error (a failure
\* between the two file writes included); and insert_key without force fails
\* and changes neither file when the fingerprint already exists
C27_KeyStoresConsistent ==
    IsSome(k_keys.last) =>
        LET last == k_keys.last[1]
        IN  /\ DOMAIN last.keys = DOMAIN last.configs
                   => DOMAIN k_keys.keys = DOMAIN k_keys.configs
            /\ (/\ ~last.force
                /\ IsSome(last.fingerprint)
                /\ last.fingerprint[1] \in DOMAIN last.keys
                /\ DOMAIN last.keys = DOMAIN last.configs)
                   => /\ last.result.kind = "Err"
                      /\ k_keys.keys = last.keys
                      /\ k_keys.configs = last.configs

(***************************************************************************)
(* request_and_load_media (src/tape/drive/mod.rs)                          *)
(***************************************************************************)

\* turns of the polling loop of one request
MaxPolls == 3

\* the media of the pool: two of them carry the same label text
Tapes ==
    {[label_text |-> "A", uuid |-> 1], [label_text |-> "A", uuid |-> 2],
     [label_text |-> "B", uuid |-> 3]}

\* a tape without label, and no tape
EmptyTape == [label_text |-> "", uuid |-> 0]
NoMedia == [label_text |-> "", uuid |-> -1]

\* what a drive can hold
DriveContents == Tapes \cup {EmptyTape, NoMedia}

\* a TapeRequestError
RequestError(error, label) == [error |-> error, label |-> label]

\* TapeDriver::read_label on the loaded media
ReadLabel(loaded, read_fails) ==
    IF read_fails \/ loaded = NoMedia THEN Err("read failed")
    ELSE IF loaded = EmptyTape THEN Ok(None)
    ELSE Ok(Some(loaded))

\* a check that accepts a media with the label text of the request
CheckLabelText(read, label) ==
    IF read.kind = "Ok" /\ IsSome(read.val)
       /\ read.val[1].label_text = label.label_text
    THEN Ok(read.val[1])
    ELSE Err("read label failed (please label all tapes first)")

\* request_and_load_media, the closure check_label
CheckLabel(read, label) ==
    IF read.kind = "Ok" /\ IsSome(read.val) /\ read.val[1].uuid = label.uuid
    THEN Ok(read.val[1])
    ELSE Err("read label failed (please label all tapes first)")

\* request_and_load_media, the match on handle.read_label() in the loop:
\* the media to return, or the TapeRequestError to report
PollReadLabel(read, label) ==
    IF read.kind = "Err" THEN Err(RequestError("ReadFailed", EmptyTape))
    ELSE IF ~IsSome(read.val) THEN Err(RequestError("EmptyTape", EmptyTape))
    ELSE IF read.val[1].uuid = label.uuid THEN Ok(read.val[1])
    ELSE Err(RequestError("WrongLabel", read.val[1]))

\* request_and_load_media, the closure update_and_log_request_error: a new
\* error is logged and mailed, and a mail that cannot be sent is an error
UpdateAndLogRequestError(old, new, notify_email, send_fails) ==
    IF new # old
    THEN IF notify_email /\ send_fails
         THEN [last_error |-> old, mails |-> 0, result |-> Err("sendmail")]
         ELSE [last_error |-> new, mails |-> IF notify_email THEN 1 ELSE 0,
               result |-> Ok("unit")]
    ELSE [last_error |-> old, mails |-> 0, result |-> Ok("unit")]

\* request_and_load_media is called for the media A with uuid 1 on a
\* virtual drive, a drive with changer or a drive loaded by hand
MediaInit ==
    \E kind \in {"virtual", "changer", "manual"}, loaded \in DriveContents,
       notify_email \in BOOLEAN :
        m_req = [kind |-> kind, label |-> [label_text |-> "A", uuid |-> 1],
                 loaded |-> loaded, notify_email |-> notify_email,
                 last_error |-> RequestError("None", EmptyTape),
                 abort |-> FALSE, polls |-> 0,
                 mails |-> 0, pc |-> "called",
                 result |-> None]

\* the virtual drive or the changer loads a media with the label text of
\* the request, if that works; then the drive is opened and check_label
\* decides
RequestLoadMedia ==
    /\ m_req.pc = "called"
    /\ m_req.kind \in {"virtual", "changer"}
    /\ \/ \E step \in {"deserialize", "load_media", "open"} :
              m_req' = [m_req EXCEPT !.pc = "returned",
                                     !.result = Some(Err(step))]
       \/ \E tape \in {t \in Tapes : t.label_text = m_req.label.label_text},
             read_fails \in BOOLEAN :
              m_req' = [m_req EXCEPT
                           !.loaded = tape,
                           !.pc = "returned",
                           !.result = Some(CheckLabel(
                                               ReadLabel(tape, read_fails),
                                               m_req.label))]
    /\ UNCHANGED <<prune_vars, blob_vars, gc_vars, sync_vars, tape_vars>>
    /\ UNCHANGED <<l_loc, c_fix, c_file, k_keys, d_lock, r_sess>>

\* one turn of the polling loop of a drive loaded by hand: check_abort (also
\* during the delay), open, read_label, update_and_log_request_error
RequestPoll ==
    /\ m_req.pc = "called"
    /\ m_req.kind = "manual"
    /\ m_req.polls < MaxPolls
    /\ LET Return(result) ==
               m_req' = [m_req EXCEPT !.pc = "returned", !.polls = @ + 1,
                                      !.result = Some(result)]
           Report(new) ==
               \E send_fails \in BOOLEAN :
                   LET u == UpdateAndLogRequestError(m_req.last_error, new,
                                                     m_req.notify_email,
                                                     send_fails)
                   IN  IF u.result.kind = "Err"
                       THEN m_req' = [m_req EXCEPT !.pc = "returned",
                                                   !.polls = @ + 1,
                                                   !.result = Some(u.result)]
                       ELSE m_req' = [m_req EXCEPT !.polls = @ + 1,
                                                   !.last_error = u.last_error,
                                                   !.mails = @ + u.mails]
       IN  IF m_req.abort THEN Return(Err("abort"))
           ELSE \/ Report(RequestError("OpenFailed", EmptyTape))
                \/ \E read_fails \in BOOLEAN :
                       LET r == PollReadLabel(
                                    ReadLabel(m_req.loaded, read_fails),
                                    m_req.label)
                       IN  IF r.kind = "Ok" THEN Return(r)
                           ELSE Report(r.val)
    /\ UNCHANGED <<prune_vars, blob_vars, gc_vars, sync_vars, tape_vars>>
    /\ UNCHANGED <<l_loc, c_fix, c_file, k_keys, d_lock, r_sess>>

\* the operator changes the media in the drive
OperatorChangesMedia ==
    /\ m_req # <<>>
    /\ m_req.pc = "called"
    /\ m_req.kind = "manual"
    /\ \E loaded \in DriveContents \ {m_req.loaded} :
           m_req' = [m_req EXCEPT !.loaded = loaded]
    /\ UNCHANGED <<prune_vars, blob_vars, gc_vars, sync_vars, tape_vars>>
    /\ UNCHANGED <<l_loc, c_fix, c_file, k_keys, d_lock, r_sess>>

\* the worker task is asked to abort
WorkerAbort ==
    /\ m_req # <<>>
    /\ m_req.pc = "called"
    /\ ~m_req.abort
    /\ m_req' = [m_req EXCEPT !.abort = TRUE]
    /\ UNCHANGED <<prune_vars, blob_vars, gc_vars, sync_vars, tape_vars>>
    /\ UNCHANGED <<l_loc, c_fix, c_file, k_keys, d_lock, r_sess>>

InitMedia ==
    /\ MediaInit
    /\ PruneIdle /\ BlobIdle /\ GcIdle /\ SyncIdle /\ TapeIdle
    /\ l_loc = <<>> /\ c_fix = <<>> /\ c_file = <<>> /\ k_keys = <<>>
    /\ d_lock = <<>> /\ r_sess = <<>>

NextMedia ==
    \/ RequestLoadMedia
    \/ RequestPoll
    \/ OperatorChangesMedia
    \/ WorkerAbort

SpecMedia == InitMedia /\ [][NextMedia]_vars

\* a handle is returned only with the media of the requested uuid loaded
HandleOnlyForRequestedMedia ==
    (m_req.pc = "returned" /\ m_req.result[1].kind = "Ok") =>
        /\ m_req.result[1].val = m_req.loaded
        /\ m_req.loaded.uuid = m_req.label.uuid

NumQueries == 2

\* tape operations that lock the drive, one after the other
MaxDeviceOps == 2

DeviceInit ==
    d_lock = [holder |-> "free", state_file |-> None, ops |-> 0,
              query |-> [q \in 1..NumQueries |->
                            [pc |-> "idle", state |-> None, probed |-> "",
                             result |-> None]]]

\* lock_device_path: a tape operation gets the exclusive lock on the lock
\* file of the drive once it is free
LockDevicePath ==
    /\ d_lock.holder = "free"
    /\ d_lock.ops < MaxDeviceOps
    /\ d_lock' = [d_lock EXCEPT !.holder = "operation", !.ops = @ + 1]
    /\ UNCHANGED <<prune_vars, blob_vars, gc_vars, sync_vars, tape_vars>>
    /\ UNCHANGED <<l_loc, m_req, c_fix, c_file, k_keys, r_sess>>

\* set_tape_device_state, called by the operation that holds the lock
SetTapeDeviceState ==
    /\ d_lock # <<>>
    /\ d_lock.holder = "operation"
    /\ \E state \in {"reading", "writing"} :
           /\ d_lock.state_file # Some(state)
           /\ d_lock' = [d_lock EXCEPT !.state_file = Some(state)]
    /\ UNCHANGED <<prune_vars, blob_vars, gc_vars, sync_vars, tape_vars>>
    /\ UNCHANGED <<l_loc, m_req, c_fix, c_file, k_keys, r_sess>>

\* the operation ends and its DeviceLockGuard is dropped
DropDeviceLockGuard ==
    /\ d_lock # <<>>
    /\ d_lock.holder = "operation"
    /\ d_lock' = [d_lock EXCEPT !.holder = "free"]
    /\ UNCHANGED <<prune_vars, blob_vars, gc_vars, sync_vars, tape_vars>>
    /\ UNCHANGED <<l_loc, m_req, c_fix, c_file, k_keys, r_sess>>

\* get_tape_device_state up to the lock test: the state file is read
GetTapeDeviceStateRead(q) ==
    /\ d_lock # <<>>
    /\ d_lock.query[q].pc = "idle"
    /\ d_lock' = [d_lock EXCEPT !.query[q].pc = "test",
                                !.query[q].state = d_lock.state_file]
    /\ UNCHANGED <<prune_vars, blob_vars, gc_vars, sync_vars, tape_vars>>
    /\ UNCHANGED <<l_loc, m_req, c_fix, c_file, k_keys, r_sess>>

\* test_device_path_lock: lock_file without waiting; WouldBlock means the
\* file is locked, and get_tape_device_state returns the state it read;
\* otherwise this call now holds the exclusive lock
TestDevicePathLock(q) ==
    /\ d_lock # <<>>
    /\ d_lock.query[q].pc = "test"
    /\ IF d_lock.holder # "free"
       THEN d_lock' = [d_lock EXCEPT
                          !.query[q].pc = "done",
                          !.query[q].probed = d_lock.holder,
                          !.query[q].result = Some(d_lock.query[q].state)]
       ELSE d_lock' = [d_lock EXCEPT
                          !.holder = "query",
                          !.query[q].pc = "locked",
                          !.query[q].probed = "free"]
    /\ UNCHANGED <<prune_vars, blob_vars, gc_vars, sync_vars, tape_vars>>
    /\ UNCHANGED <<l_loc, m_req, c_fix, c_file, k_keys, r_sess>>

\* test_device_path_lock after it got the lock: backup_user, fchown, and
\* the return of false, which closes the file and so releases the lock;
\* get_tape_device_state returns None
TestDevicePathLockReturn(q) ==
    /\ d_lock # <<>>
    /\ d_lock.query[q].pc = "locked"
    /\ d_lock' = [d_lock EXCEPT !.holder = "free",
                                !.query[q].pc = "done",
                                !.query[q].result = Some(None)]
    /\ UNCHANGED <<prune_vars, blob_vars, gc_vars, sync_vars, tape_vars>>
    /\ UNCHANGED <<l_loc, m_req, c_fix, c_file, k_keys, r_sess>>

InitDevice ==
    /\ DeviceInit
    /\ PruneIdle /\ BlobIdle /\ GcIdle /\ SyncIdle /\ TapeIdle
    /\ l_loc = <<>> /\ m_req = <<>> /\ c_fix = <<>> /\ c_file = <<>>
    /\ k_keys = <<>> /\ r_sess = <<>>

NextDevice ==
    \/ LockDevicePath
    \/ SetTapeDeviceState
    \/ DropDeviceLockGuard
    \/ \E q \in 1..NumQueries :
           \/ GetTapeDeviceStateRead(q)
           \/ TestDevicePathLock(q)
           \/ TestDevicePathLockReturn(q)

SpecDevice == InitDevice /\ [][NextDevice]_vars

\* C28: get_tape_device_state reports a drive state only while a tape
\* operation holds the exclusive device lock taken by lock_device_path: a
\* call that returns a state found the lock held by an operation, and when
\* no operation holds the lock the call returns None, also when several
\* state queries probe the lock concurrently
C28_StateOnlyWhileLocked ==
    \A q \in 1..NumQueries :
        (/\ d_lock.query[q].pc = "done"
         /\ d_lock.query[q].result # Some(None))
            => d_lock.query[q].probed = "operation"

(***************************************************************************)
(* The reader session: download_file and download_chunk                    *)
(* (src/api2/reader.rs)                                                    *)
(***************************************************************************)

\* requests of one reader session
MaxRequests == 4

\* chunk digests are 1..MaxDigest
MaxDigest == 4

\* the files of the opened snapshot and the chunks its index files list
ReaderFiles ==
    [file_name : {"root.didx"}, digests : {<<1, 2>>}]
        \cup [file_name : {"disk.fidx"}, digests : {<<2, 3>>}]
        \cup [file_name : {"conf.blob"}, digests : {<<>>}]

\* the file names a client may ask for
ReaderFileNames == {f.file_name : f \in ReaderFiles} \cup {"gone.didx"}

\* ReaderEnvironment::register_chunk, for all chunks of an index
RegisterChunks(allowed_chunks, digests) == allowed_chunks \cup Range(digests)

\* ReaderEnvironment::check_chunk_access
CheckChunkAccess(allowed_chunks, digest) == digest \in allowed_chunks

\* download_file: the session state and the response for file_name
DownloadFileResult(allowed_chunks, file_name) ==
    LET found == {f \in ReaderFiles : f.file_name = file_name}
        file == CHOOSE f \in found : TRUE
    IN  IF ArchiveType(file_name) \in {"FixedIndex", "DynamicIndex"}
        THEN IF found = {}
             THEN [allowed_chunks |-> allowed_chunks,
                   result |-> Err("open index")]
             ELSE [allowed_chunks |->
                       RegisterChunks(allowed_chunks, file.digests),
                   result |-> Ok(file_name)]
        ELSE [allowed_chunks |-> allowed_chunks,
              result |-> IF found = {} THEN Err("not found")
                         ELSE Ok(file_name)]

\* a download_chunk that does not ask check_chunk_access
DownloadChunkUnchecked(allowed_chunks, chunks, digest) ==
    IF digest \notin chunks
    THEN [read |-> TRUE, result |-> Err("BAD_REQUEST")]
    ELSE [read |-> TRUE, result |-> Ok(digest)]

\* download_chunk: the response for digest, and whether the chunk file was
\* read
DownloadChunkResult(allowed_chunks, chunks, digest) ==
    IF ~CheckChunkAccess(allowed_chunks, digest)
    THEN [read |-> FALSE, result |-> Err("UNAUTHORIZED")]
    ELSE IF digest \notin chunks
    THEN [read |-> TRUE, result |-> Err("BAD_REQUEST")]
    ELSE [read |-> TRUE, result |-> Ok(digest)]

\* a reader session on the snapshot has begun; the chunk store holds any
\* chunks
ReaderInit ==
    \E chunks \in SUBSET (1..MaxDigest) :
        r_sess = [chunks |-> chunks, allowed_chunks |-> {},
                  downloaded |-> {}, requests |-> 0, last |-> None]

\* GET download?file-name=...
DownloadFile ==
    /\ r_sess.requests < MaxRequests
    /\ \E file_name \in ReaderFileNames :
           LET r == DownloadFileResult(r_sess.allowed_chunks, file_name)
           IN  r_sess' = [r_sess EXCEPT
                             !.allowed_chunks = r.allowed_chunks,
                             !.downloaded =
                                 IF r.result.kind = "Ok"
                                 THEN @ \cup {file_name} ELSE @,
                             !.requests = @ + 1,
                             !.last = Some([request |-> "download",
                                            digest |-> 0,
                                            before |-> r_sess.downloaded,
                                            read |-> FALSE,
                                            result |-> r.result])]
    /\ UNCHANGED <<prune_vars, blob_vars, gc_vars, sync_vars, tape_vars>>
    /\ UNCHANGED <<l_loc, m_req, c_fix, c_file, k_keys, d_lock>>

\* GET chunk?digest=...
DownloadChunk ==
    /\ r_sess.requests < MaxRequests
    /\ \E digest \in 1..MaxDigest :
           LET r == DownloadChunkResult(r_sess.allowed_chunks, r_sess.chunks,
                                        digest)
           IN  r_sess' = [r_sess EXCEPT
                             !.requests = @ + 1,
                             !.last = Some([request |-> "chunk",
                                            digest |-> digest,
                                            before |-> r_sess.downloaded,
                                            read |-> r.read,
                                            result |-> r.result])]
    /\ UNCHANGED <<prune_vars, blob_vars, gc_vars, sync_vars, tape_vars>>
    /\ UNCHANGED <<l_loc, m_req, c_fix, c_file, k_keys, d_lock>>

InitReader ==
    /\ ReaderInit
    /\ PruneIdle /\ BlobIdle /\ GcIdle /\ SyncIdle /\ TapeIdle
    /\ l_loc = <<>> /\ m_req = <<>> /\ c_fix = <<>> /\ c_file = <<>>
    /\ k_keys = <<>> /\ d_lock = <<>>

NextReader ==
    \/ DownloadFile
    \/ DownloadChunk

SpecReader == InitReader /\ [][NextReader]_vars

\* the digests listed by the index files among a set of file names
ListedBy(file_names) ==
    UNION {Range(f.digests) :
               f \in {x \in ReaderFiles :
                         /\ x.file_name \in file_names
                         /\ ArchiveType(x.file_name) # "Blob"}}

\* C29: in a reader session a chunk download succeeds only if its digest
\* was registered by an earlier download of an index file (.fidx/.didx) of
\* the opened snapshot within the same session; a request for any other
\* digest is rejected as unauthorized and reads no chunk file
C29_ChunkOnlyIfRegistered ==
    (IsSome(r_sess.last) /\ r_sess.last[1].request = "chunk") =>
        LET last == r_sess.last[1]
        IN  /\ last.result.kind = "Ok" => last.digest \in ListedBy(last.before)
            /\ last.digest \notin ListedBy(last.before) =>
                   /\ last.result = Err("UNAUTHORIZED")
                   /\ ~last.read

\* a chunk of the fixed index was fetched after the index was downloaded
C29_Witness ==
    /\ IsSome(r_sess.last)
    /\ r_sess.last[1].request = "chunk"
    /\ r_sess.last[1].digest = 3
    /\ r_sess.last[1].result.kind = "Ok"
    /\ r_sess.last[1].before = {"disk.fidx", "conf.blob"}

====
